---- MODULE Spec2Model ----
(***************************************************************************)
(* Verification model of the schema-reconciliation core of LWS_CloudPipe:  *)
(* the column-name sanitizers, the blob matcher, the column-cleaning loop, *)
(* the schema differ and the type inferencer, each translated from the     *)
(* Python source.                                                          *)
(*                                                                         *)
(* A Python str is modelled as a sequence of characters; a character is a  *)
(* one-character TLA+ string, except for the non-ASCII characters, which   *)
(* are written by their code point ("U+00E9" is e-acute, "U+00C9" its      *)
(* upper case, "U+1F600" an emoji).                                        *)
(***************************************************************************)
EXTENDS Integers, Sequences, FiniteSets, TLC

VARIABLES
    \* identifier sanitizer (clean_column_name, four copies)
    san_impl,        \* which copy of clean_column_name is called
    column_name,     \* the argument of clean_column_name
    cleaned,         \* its return value
    cleaned_again,   \* the return value of a second call on `cleaned`
    san_pc,          \* "start" | "once" | "twice"
    \* column-cleaning loop of load_from_azure / create_column_type_mapping
    loop_impl,       \* which script's loop runs
    df_columns,      \* df.columns, the labels of the downloaded CSV
    cleaned_columns, \* the list the loop appends to
    j,               \* the loop index (enumerate), 0-based
    \* blob matcher (find_matching_blob, two copies)
    match_impl, blob_name, available_blobs, matching_blob, match_pc,
    \* schema differ (analyze_column_comparison, compare_schemas)
    csv_columns, snowflake_columns, comparison_data, schema_comparison, diff_pc,
    \* type inferencer (analyze_column_type)
    type_column, sample_data, snowflake_type, type_pc,
    \* add_test_columns.py: the two ALTER TABLE ... ADD COLUMN statements
    projects_columns, \* the columns of PUBLIC.PROJECTS in the warehouse
    atc_executed,     \* the columns an ALTER TABLE was executed for, in order
    atc_stdout,       \* the lines printed, one record per line
    atc_pc,           \* the statement the script is at
    \* one table of a schema pass: SchemaSyncPipeline.process_table, recreate_tables_final
    recon_impl,       \* which script processes the table
    csv_header,       \* df.columns of the table's CSV: the incoming labels
    target_exists,    \* whether the warehouse has the table
    target_columns,   \* the table's columns in the warehouse
    table_result,     \* the status of the table's result
    residual,         \* compare_schemas of header and table after the pass
    recon_pc,         \* "start" | "processed" | "diffed"
    \* the per-table loop of a script: load_from_azure, AzureToSnowflakeLoader, PreLoadCleaner, SchemaSyncPipeline
    load_impl,        \* which script runs
    table_mapping,    \* the entries of table_mapping.json
    container_blobs,  \* the names of the blobs in the container
    results,          \* the list of per-table results the loop appends to
    load_i,           \* the number of tables the loop has gone through
    start_event,      \* what happened before the loop
    load_pc,          \* "start" | "run" | "loop" | "exited"
    returncode,       \* the exit code of the script's process
    \* orchestrate_pipeline.py: PipelineOrchestrator.run_pipeline and its stage processes
    orch_pc,          \* "call" | "wait" | "verify" | "done"
    orch_k,           \* the number of the stage run_pipeline is at, 1..4
    stage_calls,      \* the stages whose run_* method was called, in order
    procs,            \* the process of each stage: "none" | "running" | "exited"
    stages,           \* results["stages"]: the status recorded for each stage
    successful_stages,\* results["successful_stages"]
    failed_stages,    \* results["failed_stages"]
    overall_success,  \* results["overall_success"]
    total_stages,     \* results["total_stages"]
    stage_return_code,\* results["stages"][stage]["return_code"]
    exit_code,        \* the exit code of the orchestrator's process
    \* app.py: /api/pipeline/run and /api/pipeline/status, and the client of test_pipeline.py
    api_pc,           \* run_pipeline(): "none" | "wait" | "responded"
    api_proc,         \* the orchestrator's process: "none" | "running" | "exited"
    return_code,      \* result.returncode of the orchestrator's process
    run_response,     \* the response to POST /api/pipeline/run
    poster,           \* who sent the POST
    client_pc,        \* where the client is
    current_status,   \* status_data['status'] of the last poll
    polls,            \* the polls the monitoring loop has slept after
    loop_end,         \* why the monitoring loop ended
    \* value cleaning of one column: DataTypeFixer.fix_numeric_columns / fix_date_columns, csv_cleaner.clean_string_value
    fix_fn,           \* which function cleans the column
    fix_col,          \* the column's label
    fix_values,       \* df[col] before the call
    fix_result,       \* df[col] after the call
    fix_pc,           \* "start" | "done"
    \* backup and overwrite of one blob: PreLoadCleaner.process_table, DataTypeFixer.fix_csv_data_types
    bak_impl,         \* which script rewrites the blob
    bak_original,     \* the content of the blob before the call
    blob_content,     \* the content of the blob
    backup_copy,      \* the backup blob: "absent" | "pending" | "success" | "failed"
    backup_content,   \* the content of the backup blob
    bak_pc,           \* the step the call is at
    bak_result,       \* result['status']
    \* the bulk write into one table: load_data_to_snowflake, AzureToSnowflakeLoader.load_to_snowflake
    wr_impl,          \* which script loads the table
    previous_rows,    \* the rows of the table before the call
    df_rows,          \* the rows of df, the payload
    table_rows,       \* the rows of the table
    wr_pc,            \* the statement the call is at
    wr_success,       \* whether the call reports the load as done
    \* app.py serving several POSTs to /api/pipeline/run
    srv_pc,           \* where the handler of each request is
    srv_proc,         \* the orchestrator process each handler started: the stage it runs
    srv_status,       \* the status of the response to each request
    \* DataQuery.download_monday_data for one board
    board_pages,      \* the board at the service: the number of items of each page
    pages_retrieved,  \* the pages whose items were appended
    board_items,      \* board_items
    loop_exit,        \* why the while loop was left
    csv_written,      \* whether df.to_csv wrote the board's CSV
    csv_rows,         \* the rows of the CSV written
    csv_uploaded,     \* whether upload_df_to_azure uploaded it
    mon_pc,           \* where the call is
    \* PreLoadCleaner.clean_csv_columns on one CSV
    original_columns, \* df.columns
    describe_columns, \* the table's columns as DESCRIBE TABLE lists them
    df_cleaned_columns,\* df_cleaned.columns
    pcl_pc            \* "start" | "done"

sanVars   == <<san_impl, column_name, cleaned, cleaned_again, san_pc>>
loopVars  == <<loop_impl, df_columns, cleaned_columns, j>>
matchVars == <<match_impl, blob_name, available_blobs, matching_blob, match_pc>>
diffVars  == <<csv_columns, snowflake_columns, comparison_data, schema_comparison, diff_pc>>
typeVars  == <<type_column, sample_data, snowflake_type, type_pc>>
atcVars   == <<projects_columns, atc_executed, atc_stdout, atc_pc>>
reconVars ==
    <<recon_impl, csv_header, target_exists,
      target_columns, table_result, residual, recon_pc>>
loadVars ==
    <<load_impl, table_mapping, container_blobs, results,
      load_i, start_event, load_pc, returncode>>
orchVars ==
    <<orch_pc, orch_k, stage_calls, procs, stages,
      successful_stages, failed_stages, overall_success, total_stages, stage_return_code, exit_code>>
apiVars ==
    <<api_pc, api_proc, return_code, run_response,
      poster, client_pc, current_status, polls, loop_end>>
fixVars == <<fix_fn, fix_col, fix_values, fix_result, fix_pc>>
bakVars ==
    <<bak_impl, bak_original, blob_content,
      backup_copy, backup_content, bak_pc, bak_result>>
wrVars == <<wr_impl, previous_rows, df_rows, table_rows, wr_pc, wr_success>>
srvVars == <<srv_pc, srv_proc, srv_status>>
monVars ==
    <<board_pages, pages_retrieved, board_items, loop_exit,
      csv_written, csv_rows, csv_uploaded, mon_pc>>
pclVars == <<original_columns, describe_columns, df_cleaned_columns, pcl_pc>>
\* the variables of the pipeline scripts, which the name, matching, diffing
\* and typing functions above them never touch
pipeVars  == <<atcVars, reconVars, loadVars, orchVars, apiVars, fixVars, bakVars, wrVars, srvVars, monVars, pclVars>>
coreVars  == <<sanVars, loopVars, matchVars, diffVars, typeVars>>
notAtcVars == <<coreVars, reconVars, loadVars, orchVars, apiVars, fixVars, bakVars, wrVars, srvVars, monVars, pclVars>>
notReconVars == <<coreVars, atcVars, loadVars, orchVars, apiVars, fixVars, bakVars, wrVars, srvVars, monVars, pclVars>>
notLoadVars == <<coreVars, atcVars, reconVars, orchVars, apiVars, fixVars, bakVars, wrVars, srvVars, monVars, pclVars>>
notOrchVars == <<coreVars, atcVars, reconVars, loadVars, apiVars, fixVars, bakVars, wrVars, srvVars, monVars, pclVars>>
notApiVars == <<coreVars, atcVars, reconVars, loadVars, orchVars, fixVars, bakVars, wrVars, srvVars, monVars, pclVars>>
notFixVars == <<coreVars, atcVars, reconVars, loadVars, orchVars, apiVars, bakVars, wrVars, srvVars, monVars, pclVars>>
notBakVars == <<coreVars, atcVars, reconVars, loadVars, orchVars, apiVars, fixVars, wrVars, srvVars, monVars, pclVars>>
notWrVars == <<coreVars, atcVars, reconVars, loadVars, orchVars, apiVars, fixVars, bakVars, srvVars, monVars, pclVars>>
notSrvVars == <<coreVars, atcVars, reconVars, loadVars, orchVars, apiVars, fixVars, bakVars, wrVars, monVars, pclVars>>
notMonVars == <<coreVars, atcVars, reconVars, loadVars, orchVars, apiVars, fixVars, bakVars, wrVars, srvVars, pclVars>>
notPclVars == <<coreVars, atcVars, reconVars, loadVars, orchVars, apiVars, fixVars, bakVars, wrVars, srvVars, monVars>>
\* everything but the orchestrator, its stage processes and the application
notRunVars == <<coreVars, atcVars, reconVars, fixVars, bakVars, wrVars, srvVars, monVars, pclVars>>
vars      == <<sanVars, loopVars, matchVars, diffVars, typeVars, pipeVars>>

\* Python's None where a str is expected: a sequence no str is equal to
None == <<"None">>
\* the value of a variable that selects a copy of a function while another
\* component's specification runs
NoImpl == "none"

-----------------------------------------------------------------------------
(* Characters and the str methods the source uses.                         *)

LowerSeq == <<"a","b","c","d","e","f","g","h","i","j","k","l","m",
              "n","o","p","q","r","s","t","u","v","w","x","y","z">>
UpperSeq == <<"A","B","C","D","E","F","G","H","I","J","K","L","M",
              "N","O","P","Q","R","S","T","U","V","W","X","Y","Z">>
AsciiLower  == {LowerSeq[i] : i \in 1..26}
AsciiUpper  == {UpperSeq[i] : i \in 1..26}
AsciiLetter == AsciiLower \cup AsciiUpper
AsciiDigit  == {"0","1","2","3","4","5","6","7","8","9"}
Whitespace  == {" ", "\t", "\n", "\r"}
NonAsciiLetter == {"U+00E9", "U+00C9"}

\* str.isalpha() of one character: Unicode letters, not only ASCII ones
isalpha(c) == c \in AsciiLetter \cup NonAsciiLetter

\* the class \w of Python 3's re on str: Unicode letters, digits, underscore
IsWordChar(c) == c \in AsciiLetter \cup NonAsciiLetter \cup AsciiDigit \cup {"_"}

\* the class [a-zA-Z0-9_]
IsAsciiWordChar(c) == c \in AsciiLetter \cup AsciiDigit \cup {"_"}

upper_char(c) ==
    IF c \in AsciiLower THEN UpperSeq[CHOOSE i \in 1..26 : LowerSeq[i] = c]
    ELSE IF c = "U+00E9" THEN "U+00C9" ELSE c
lower_char(c) ==
    IF c \in AsciiUpper THEN LowerSeq[CHOOSE i \in 1..26 : UpperSeq[i] = c]
    ELSE IF c = "U+00C9" THEN "U+00E9" ELSE c

upper(s) == [i \in 1..Len(s) |-> upper_char(s[i])]
lower(s) == [i \in 1..Len(s) |-> lower_char(s[i])]

RECURSIVE lstrip(_, _)
lstrip(s, chars) ==
    IF s # <<>> /\ Head(s) \in chars THEN lstrip(Tail(s), chars) ELSE s
RECURSIVE rstrip(_, _)
rstrip(s, chars) ==
    IF s # <<>> /\ s[Len(s)] \in chars
    THEN rstrip(SubSeq(s, 1, Len(s) - 1), chars) ELSE s
\* str.strip(chars); str.strip() is strip(s, Whitespace)
strip(s, chars) == rstrip(lstrip(s, chars), chars)


\* re.sub(r'_+', '_', s)
RECURSIVE collapse_underscores(_)
collapse_underscores(s) ==
    IF Len(s) < 2 THEN s
    ELSE IF s[1] = "_" /\ s[2] = "_" THEN collapse_underscores(Tail(s))
    ELSE <<s[1]>> \o collapse_underscores(Tail(s))

\* `sub in s` of two str
contains(s, sub) ==
    \E i \in 0..(Len(s) - Len(sub)) : SubSeq(s, i + 1, i + Len(sub)) = sub

\* str(n) of a non-negative int
DigitSeq == <<"0","1","2","3","4","5","6","7","8","9">>
RECURSIVE str_of_nat(_)
str_of_nat(n) ==
    IF n < 10 THEN <<DigitSeq[n + 1]>>
    ELSE str_of_nat(n \div 10) \o <<DigitSeq[(n % 10) + 1]>>

-----------------------------------------------------------------------------
(* Identifier sanitizer: the copies of clean_column_name.                  *)

UNNAMED_COLUMN == <<"U","N","N","A","M","E","D","_","C","O","L","U","M","N">>
COL_ == <<"C","O","L","_">>

reserved_words ==
    { <<"S","E","L","E","C","T">>, <<"F","R","O","M">>, <<"W","H","E","R","E">>,
      <<"I","N","S","E","R","T">>, <<"U","P","D","A","T","E">>,
      <<"D","E","L","E","T","E">>, <<"C","R","E","A","T","E">>,
      <<"D","R","O","P">>, <<"T","A","B","L","E">>, <<"C","O","L","U","M","N">> }

Quotes == {"\"", "'"}

\* the character class of the first re.sub of the loader's clean_column_name
ProblemChars ==
    {"/", "(", ")", "?", "-", ".", ",", ":", ";", "!", "@", "#", "$", "%", "^",
     "&", "*", "+", "=", "[", "]", "{", "}", "|", "\\", "`", "~", "<", ">",
     "\"", "'"}

IsSpaceChar(c)    == c = " "
IsProblemChar(c)  == c \in ProblemChars
\* [^\w\s_]
IsNotWordNorSpace(c) == ~IsWordChar(c) /\ c \notin Whitespace
\* [^a-zA-Z0-9_]
IsNotAsciiWord(c) == ~IsAsciiWordChar(c)
\* the characters load_from_azure.clean_column_name replaces one by one
IsSlashParenQuestionHyphen(c) == c \in {"/", "(", ")", "?", "-"}

\* cleaned.replace(' ', '_')
replace_spaces(s) ==
    [i \in 1..Len(s) |-> IF IsSpaceChar(s[i]) THEN "_" ELSE s[i]]
\* re.sub(r'[/\(\)\?\-\.,...]', '_', cleaned)
sub_problem_chars(s) ==
    [i \in 1..Len(s) |-> IF IsProblemChar(s[i]) THEN "_" ELSE s[i]]
\* re.sub(r'[^\w\s_]', '_', cleaned)
sub_not_word_nor_space(s) ==
    [i \in 1..Len(s) |-> IF IsNotWordNorSpace(s[i]) THEN "_" ELSE s[i]]
\* re.sub(r'[^a-zA-Z0-9_]', '_', cleaned)
sub_not_ascii_word(s) ==
    [i \in 1..Len(s) |-> IF IsNotAsciiWord(s[i]) THEN "_" ELSE s[i]]
\* cleaned.replace('/', '_').replace('(', '_') ... .replace('-', '_')
replace_slash_paren_question_hyphen(s) ==
    [i \in 1..Len(s) |-> IF IsSlashParenQuestionHyphen(s[i]) THEN "_" ELSE s[i]]

needs_col_prefix(s) == s # <<>> /\ ~isalpha(s[1]) /\ s[1] # "_"

AzureToSnowflakeLoader_clean_column_name(name) ==
    LET c1 == strip(strip(name, Whitespace), Quotes)
        c2 == replace_spaces(c1)
        c3 == sub_problem_chars(c2)
        c4 == sub_not_word_nor_space(c3)
        c5 == collapse_underscores(c4)
        c6 == strip(c5, {"_"})
        c7 == IF c6 = <<>> THEN UNNAMED_COLUMN ELSE c6
        c8 == IF needs_col_prefix(c7) THEN COL_ \o c7 ELSE c7
    IN  IF upper(c8) \in reserved_words THEN COL_ \o c8 ELSE c8

load_from_azure_clean_column_name(name) ==
    LET c1 == strip(strip(name, Whitespace), Quotes)
        c2 == replace_slash_paren_question_hyphen(c1)
        c3 == collapse_underscores(c2)
        c4 == strip(c3, {"_"})
        c5 == IF c4 = <<>> THEN UNNAMED_COLUMN ELSE c4
    IN  IF upper(c5) \in reserved_words THEN COL_ \o c5 ELSE c5

create_column_type_mapping_clean_column_name(name) ==
    LET c1 == strip(name, Whitespace)
        c2 == sub_not_ascii_word(c1)
        c3 == collapse_underscores(c2)
        c4 == strip(c3, {"_"})
        c5 == IF needs_col_prefix(c4) THEN COL_ \o c4 ELSE c4
    IN  IF c5 = <<>> THEN UNNAMED_COLUMN ELSE c5

recreate_tables_final_clean_column_name(name) ==
    LET c1 == strip(name, Whitespace)
        c2 == sub_not_ascii_word(c1)
        c3 == collapse_underscores(c2)
        c4 == strip(c3, {"_"})
        c5 == IF needs_col_prefix(c4) THEN COL_ \o c4 ELSE c4
    IN  IF c5 = <<>> THEN UNNAMED_COLUMN ELSE c5

SanImpls == {"azure_to_snowflake_loader", "load_from_azure",
             "create_column_type_mapping", "recreate_tables_final"}

clean_column_name(impl, name) ==
    CASE impl = "azure_to_snowflake_loader" -> AzureToSnowflakeLoader_clean_column_name(name)
      [] impl = "load_from_azure"            -> load_from_azure_clean_column_name(name)
      [] impl = "create_column_type_mapping" -> create_column_type_mapping_clean_column_name(name)
      [] impl = "recreate_tables_final"      -> recreate_tables_final_clean_column_name(name)

\* the value of schema_comparison before compare_schemas has returned
NoComparison ==
    [ csv_column_count |-> 0, snowflake_column_count |-> 0, exact_matches |-> {},
      exact_match_count |-> 0, csv_only_columns |-> {}, snowflake_only_columns |-> {} ]

\* the value of snowflake_type before analyze_column_type has returned
NoType == <<"None", 0>>

\* the exit code of a process that has not exited
NoReturncode == "None"

\* the stages of run_pipeline, by their key in results["stages"], in the
\* order run_pipeline calls them
StageOrder == <<"data_query", "csv_cleaner", "schema_sync", "load_from_azure">>
StageNames == { StageOrder[m] : m \in 1..Len(StageOrder) }

\* no stage process started / results["stages"] == {}
NoProcs  == [s \in StageNames |-> "none"]
NoStages == [s \in StageNames |-> "absent"]
\* no stage has a return_code recorded
NoReturnCodes == [s \in StageNames |-> NoReturncode]
\* "total_stages": 3 in PipelineOrchestrator.__init__
InitialTotalStages == 3

\* no response yet: no status code, no key in the JSON body
NoResponse == [status_code |-> 0, keys |-> {}, status |-> "none"]

-----------------------------------------------------------------------------
(* Idle values: what a component's variables hold while another            *)
(* component's specification runs.                                         *)

SanIdle ==
    /\ san_impl = NoImpl /\ column_name = <<>> /\ cleaned = None
    /\ cleaned_again = None /\ san_pc = "idle"
LoopIdle ==
    /\ loop_impl = NoImpl /\ df_columns = <<>> /\ cleaned_columns = <<>> /\ j = 0
MatchIdle ==
    /\ match_impl = NoImpl /\ blob_name = <<>> /\ available_blobs = <<>>
    /\ matching_blob = None /\ match_pc = "idle"
DiffIdle ==
    /\ csv_columns = <<>> /\ snowflake_columns = <<>> /\ comparison_data = <<>>
    /\ schema_comparison = NoComparison /\ diff_pc = "idle"
TypeIdle ==
    /\ type_column = <<>> /\ sample_data = <<>> /\ snowflake_type = NoType
    /\ type_pc = "idle"
AtcIdle ==
    /\ projects_columns = {}
    /\ atc_executed = <<>>
    /\ atc_stdout = <<>>
    /\ atc_pc = "idle"
ReconIdle ==
    /\ recon_impl = NoImpl
    /\ csv_header = <<>>
    /\ target_exists = FALSE
    /\ target_columns = <<>>
    /\ table_result = "pending"
    /\ residual = NoComparison
    /\ recon_pc = "idle"
LoadIdle ==
    /\ load_impl = NoImpl
    /\ table_mapping = <<>>
    /\ container_blobs = <<>>
    /\ results = <<>>
    /\ load_i = 0
    /\ start_event = "none"
    /\ load_pc = "idle"
    /\ returncode = NoReturncode
OrchIdle ==
    /\ orch_pc = "idle"
    /\ orch_k = 0
    /\ stage_calls = <<>>
    /\ procs = NoProcs
    /\ stages = NoStages
    /\ successful_stages = 0
    /\ failed_stages = 0
    /\ overall_success = FALSE
    /\ total_stages = InitialTotalStages
    /\ stage_return_code = NoReturnCodes
    /\ exit_code = NoReturncode
ApiIdle ==
    /\ api_pc = "none"
    /\ api_proc = "none"
    /\ return_code = NoReturncode
    /\ run_response = NoResponse
    /\ poster = NoImpl
    /\ client_pc = "idle"
    /\ current_status = "none"
    /\ polls = 0
    /\ loop_end = "none"
FixIdle ==
    /\ fix_fn = NoImpl
    /\ fix_col = <<>>
    /\ fix_values = <<>>
    /\ fix_result = <<>>
    /\ fix_pc = "idle"
BakIdle ==
    /\ bak_impl = NoImpl
    /\ bak_original = <<>>
    /\ blob_content = <<>>
    /\ backup_copy = "absent"
    /\ backup_content = None
    /\ bak_pc = "idle"
    /\ bak_result = "pending"
WrIdle ==
    /\ wr_impl = NoImpl
    /\ previous_rows = {}
    /\ df_rows = {}
    /\ table_rows = {}
    /\ wr_pc = "idle"
    /\ wr_success = FALSE
SrvIdle ==
    /\ srv_pc = <<>>
    /\ srv_proc = <<>>
    /\ srv_status = <<>>
MonIdle ==
    /\ board_pages = <<>>
    /\ pages_retrieved = 0
    /\ board_items = <<>>
    /\ loop_exit = "none"
    /\ csv_written = FALSE
    /\ csv_rows = <<>>
    /\ csv_uploaded = FALSE
    /\ mon_pc = "idle"
PclIdle ==
    /\ original_columns = <<>>
    /\ describe_columns = <<>>
    /\ df_cleaned_columns = <<>>
    /\ pcl_pc = "idle"
PipeIdle == AtcIdle /\ ReconIdle /\ LoadIdle /\ OrchIdle /\ ApiIdle /\ FixIdle /\ BakIdle /\ WrIdle /\ SrvIdle /\ MonIdle /\ PclIdle
CoreIdle == SanIdle /\ LoopIdle /\ MatchIdle /\ DiffIdle /\ TypeIdle
NotAtcIdle == CoreIdle /\ ReconIdle /\ LoadIdle /\ OrchIdle /\ ApiIdle /\ FixIdle /\ BakIdle /\ WrIdle /\ SrvIdle /\ MonIdle /\ PclIdle
NotReconIdle == CoreIdle /\ AtcIdle /\ LoadIdle /\ OrchIdle /\ ApiIdle /\ FixIdle /\ BakIdle /\ WrIdle /\ SrvIdle /\ MonIdle /\ PclIdle
NotLoadIdle == CoreIdle /\ AtcIdle /\ ReconIdle /\ OrchIdle /\ ApiIdle /\ FixIdle /\ BakIdle /\ WrIdle /\ SrvIdle /\ MonIdle /\ PclIdle
NotOrchIdle == CoreIdle /\ AtcIdle /\ ReconIdle /\ LoadIdle /\ ApiIdle /\ FixIdle /\ BakIdle /\ WrIdle /\ SrvIdle /\ MonIdle /\ PclIdle
NotApiIdle == CoreIdle /\ AtcIdle /\ ReconIdle /\ LoadIdle /\ OrchIdle /\ FixIdle /\ BakIdle /\ WrIdle /\ SrvIdle /\ MonIdle /\ PclIdle
NotFixIdle == CoreIdle /\ AtcIdle /\ ReconIdle /\ LoadIdle /\ OrchIdle /\ ApiIdle /\ BakIdle /\ WrIdle /\ SrvIdle /\ MonIdle /\ PclIdle
NotBakIdle == CoreIdle /\ AtcIdle /\ ReconIdle /\ LoadIdle /\ OrchIdle /\ ApiIdle /\ FixIdle /\ WrIdle /\ SrvIdle /\ MonIdle /\ PclIdle
NotWrIdle == CoreIdle /\ AtcIdle /\ ReconIdle /\ LoadIdle /\ OrchIdle /\ ApiIdle /\ FixIdle /\ BakIdle /\ SrvIdle /\ MonIdle /\ PclIdle
NotSrvIdle == CoreIdle /\ AtcIdle /\ ReconIdle /\ LoadIdle /\ OrchIdle /\ ApiIdle /\ FixIdle /\ BakIdle /\ WrIdle /\ MonIdle /\ PclIdle
NotMonIdle == CoreIdle /\ AtcIdle /\ ReconIdle /\ LoadIdle /\ OrchIdle /\ ApiIdle /\ FixIdle /\ BakIdle /\ WrIdle /\ SrvIdle /\ PclIdle
NotPclIdle == CoreIdle /\ AtcIdle /\ ReconIdle /\ LoadIdle /\ OrchIdle /\ ApiIdle /\ FixIdle /\ BakIdle /\ WrIdle /\ SrvIdle /\ MonIdle
NotRunIdle == CoreIdle /\ AtcIdle /\ ReconIdle /\ FixIdle /\ BakIdle /\ WrIdle /\ SrvIdle /\ MonIdle /\ PclIdle

-----------------------------------------------------------------------------
(* SpecSan: clean_column_name applied to a label, and applied again to its *)
(* own result.                                                             *)

MaxPieces == 3

\* the pieces labels are put together from: a reserved word in both cases,
\* a letter, a digit, an underscore, whitespace, punctuation, a quote,
\* an accented letter and an emoji
Pieces ==
    { <<"D","R","O","P">>, <<"d","r","o","p">>, <<"a">>, <<"1">>, <<"_">>,
      <<" ">>, <<"\t">>, <<"-">>, <<".">>, <<"\"">>, <<"U+00E9">>, <<"U+1F600">> }

RECURSIVE LabelsOf(_)
LabelsOf(n) ==
    IF n = 0 THEN { <<>> }
    ELSE LET shorter == LabelsOf(n - 1)
         IN  shorter \cup { l \o p : l \in shorter, p \in Pieces }

Labels == LabelsOf(MaxPieces)

SanInit ==
    /\ san_impl \in SanImpls
    /\ column_name \in Labels
    /\ cleaned = None
    /\ cleaned_again = None
    /\ san_pc = "start"

\* cleaned = clean_column_name(column_name)
Clean ==
    /\ san_pc = "start"
    /\ cleaned' = clean_column_name(san_impl, column_name)
    /\ san_pc' = "once"
    /\ UNCHANGED <<san_impl, column_name, cleaned_again>>
    /\ UNCHANGED <<loopVars, matchVars, diffVars, typeVars, pipeVars>>

\* cleaned_again = clean_column_name(cleaned)
CleanAgain ==
    /\ san_pc = "once"
    /\ cleaned_again' = clean_column_name(san_impl, cleaned)
    /\ san_pc' = "twice"
    /\ UNCHANGED <<san_impl, column_name, cleaned>>
    /\ UNCHANGED <<loopVars, matchVars, diffVars, typeVars, pipeVars>>

InitSan == SanInit /\ LoopIdle /\ MatchIdle /\ DiffIdle /\ TypeIdle /\ PipeIdle
NextSan == Clean \/ CleanAgain
SpecSan == InitSan /\ [][NextSan]_vars

\* ^[A-Za-z_][A-Za-z0-9_]*$
IsCanonicalIdentifier(s) ==
    /\ s # <<>>
    /\ s[1] \in AsciiLetter \cup {"_"}
    /\ \A i \in 1..Len(s) : IsAsciiWordChar(s[i])

\* C1: for every label, cleaning the cleaned name again returns it unchanged,
\* in each copy of clean_column_name the claim lists.
C1_Idempotent ==
    (san_pc = "twice" /\ san_impl \in {"azure_to_snowflake_loader", "load_from_azure",
                                        "create_column_type_mapping"})
        => cleaned_again = cleaned

\* C2: for every label, the cleaned name is non-empty, holds only ASCII
\* letters, digits and underscores and starts with a letter or underscore.
C2_CanonicalForm ==
    (san_pc # "start" /\ san_impl \in {"azure_to_snowflake_loader", "load_from_azure"})
        => IsCanonicalIdentifier(cleaned)

\* C4: for every label, the cleaned name is never a reserved word in any
\* letter case (a name that would be one carries the prefix COL_).
C4_NeverReserved ==
    (san_pc # "start" /\ san_impl \in {"azure_to_snowflake_loader", "recreate_tables_final"})
        => upper(cleaned) \notin reserved_words

-----------------------------------------------------------------------------
(* SpecLoop: the column-cleaning loop over df.columns, one action per      *)
(* iteration.                                                              *)

MaxCols == 3

LoopImpls == {"load_from_azure", "create_column_type_mapping"}

\* labels of a CSV header as pandas.read_csv delivers them (pairwise distinct:
\* read_csv renames a repeated label "a" to "a.1")
LoopLabels ==
    { <<"a">>, <<"a",".","1">>, <<"a","_","1">>, <<"a","_","2">>, <<"a","-">>, <<"b">> }

IsInjective(seq) ==
    \A m, n \in 1..Len(seq) : seq[m] = seq[n] => m = n

Headers ==
    { h \in UNION { [1..n -> LoopLabels] : n \in 0..MaxCols } : IsInjective(h) }

LoopInit ==
    /\ loop_impl \in LoopImpls
    /\ df_columns \in Headers
    /\ cleaned_columns = <<>>
    /\ j = 0

InList(x, list) == \E m \in 1..Len(list) : list[m] = x

\* the name one iteration appends: the cleaned label, with the suffix _<j>
\* when the cleaned label is already in cleaned_columns
cleaned_col(impl, col, list, idx) ==
    LET c == clean_column_name(impl, col)
    IN  IF InList(c, list) THEN c \o <<"_">> \o str_of_nat(idx) ELSE c

\* one iteration of `for j, col in enumerate(df.columns)`
CleanColumn ==
    /\ loop_impl # NoImpl
    /\ j < Len(df_columns)
    /\ cleaned_columns' =
           Append(cleaned_columns,
                  cleaned_col(loop_impl, df_columns[j + 1], cleaned_columns, j))
    /\ j' = j + 1
    /\ UNCHANGED <<loop_impl, df_columns>>
    /\ UNCHANGED <<sanVars, matchVars, diffVars, typeVars, pipeVars>>

InitLoop == SanIdle /\ LoopInit /\ MatchIdle /\ DiffIdle /\ TypeIdle /\ PipeIdle
NextLoop == CleanColumn
SpecLoop == InitLoop /\ [][NextLoop]_vars

\* C3: when the loop has processed every label of the table, no two entries
\* of the list of cleaned names are equal.
C3_UniqueCleanedColumns ==
    (loop_impl # NoImpl /\ j = Len(df_columns)) => IsInjective(cleaned_columns)

-----------------------------------------------------------------------------
(* Blob matcher: the copies of find_matching_blob.                         *)

DotCsv == <<".","c","s","v">>

\* `for blob in list: if <test>: return blob`, with hit[m] the outcome of the
\* test on list[m]: the first element that passes, None when none does
first_hit(list, hit) ==
    IF \E m \in 1..Len(list) : hit[m]
    THEN list[CHOOSE m \in 1..Len(list) : hit[m] /\ \A n \in 1..(m - 1) : ~hit[n]]
    ELSE None

AzureToSnowflakeLoader_find_matching_blob(target_name, blobs) ==
    LET csv_name     == target_name \o DotCsv
        target_lower == lower(target_name)
        SameIgnoringCase(blob) ==
            lower(blob) = target_lower \/ lower(blob) = target_lower \o DotCsv
        Partial(blob) ==
            contains(lower(blob), target_lower) \/ contains(target_lower, lower(blob))
    IN  IF InList(target_name, blobs) THEN target_name
        ELSE IF InList(csv_name, blobs) THEN csv_name
        ELSE IF \E m \in 1..Len(blobs) : SameIgnoringCase(blobs[m])
             THEN first_hit(blobs, [m \in 1..Len(blobs) |-> SameIgnoringCase(blobs[m])])
        ELSE first_hit(blobs, [m \in 1..Len(blobs) |-> Partial(blobs[m])])

load_from_azure_find_matching_blob(name, blobs) ==
    LET csv_name        == name \o DotCsv
        blob_name_lower == lower(name)
        SameIgnoringCase(blob) ==
            lower(blob) = blob_name_lower \/ lower(blob) = blob_name_lower \o DotCsv
    IN  IF InList(name, blobs) THEN name
        ELSE IF InList(csv_name, blobs) THEN csv_name
        ELSE first_hit(blobs, [m \in 1..Len(blobs) |-> SameIgnoringCase(blobs[m])])

MatchImpls == {"azure_to_snowflake_loader", "load_from_azure"}

find_matching_blob(impl, name, blobs) ==
    CASE impl = "azure_to_snowflake_loader" -> AzureToSnowflakeLoader_find_matching_blob(name, blobs)
      [] impl = "load_from_azure"            -> load_from_azure_find_matching_blob(name, blobs)

-----------------------------------------------------------------------------
(* SpecMatch: one call of find_matching_blob on a container listing.       *)

MaxBlobs == 3

LogicalNames == { <<"a","b">>, <<"A","B">>, <<"q">> }

BlobNames ==
    { <<"a","b">>, <<"a","b",".","c","s","v">>, <<"A","B",".","c","s","v">>,
      <<"A","b">>, <<"x","a","b","y",".","c","s","v">>, <<"a">>,
      <<"z","z",".","c","s","v">> }

\* a container listing: blob names are unique within a container
Listings ==
    { l \in UNION { [1..n -> BlobNames] : n \in 0..MaxBlobs } : IsInjective(l) }

MatchInit ==
    /\ match_impl \in MatchImpls
    /\ blob_name \in LogicalNames
    /\ available_blobs \in Listings
    /\ matching_blob = None
    /\ match_pc = "start"

\* matching_blob = find_matching_blob(blob_name, available_blobs)
FindMatchingBlob ==
    /\ match_pc = "start"
    /\ matching_blob' = find_matching_blob(match_impl, blob_name, available_blobs)
    /\ match_pc' = "done"
    /\ UNCHANGED <<match_impl, blob_name, available_blobs>>
    /\ UNCHANGED <<sanVars, loopVars, diffVars, typeVars, pipeVars>>

InitMatch == SanIdle /\ LoopIdle /\ MatchInit /\ DiffIdle /\ TypeIdle /\ PipeIdle
NextMatch == FindMatchingBlob
SpecMatch == InitMatch /\ [][NextMatch]_vars

\* the four rules of findMatch, as the claim states them
Rule(r, logical, name) ==
    CASE r = 1 -> name = logical
      [] r = 2 -> name = logical \o DotCsv
      [] r = 3 -> lower(name) = lower(logical) \/ lower(name) = lower(logical \o DotCsv)
      [] r = 4 -> contains(lower(name), lower(logical)) \/ contains(lower(logical), lower(name))

SomeRule(logical, list) ==
    \E r \in 1..4 : \E m \in 1..Len(list) : Rule(r, logical, list[m])

\* the first name of the list satisfying the earliest rule any name satisfies
EarliestRuleFirstName(logical, list) ==
    LET r == CHOOSE r \in 1..4 :
                 /\ \E m \in 1..Len(list) : Rule(r, logical, list[m])
                 /\ \A q \in 1..(r - 1) : \A m \in 1..Len(list) : ~Rule(q, logical, list[m])
        m == CHOOSE m \in 1..Len(list) :
                 /\ Rule(r, logical, list[m])
                 /\ \A n \in 1..(m - 1) : ~Rule(r, logical, list[n])
    IN  list[m]

\* C6: when some available name satisfies a rule, the matcher returns the
\* first name, in input order, satisfying the earliest satisfied rule.
C6_EarliestRuleFirstName ==
    (match_pc = "done" /\ SomeRule(blob_name, available_blobs))
        => matching_blob = EarliestRuleFirstName(blob_name, available_blobs)

\* C7: the matcher reports not-found exactly when no available name
\* satisfies any of the four rules.
C7_NotFoundIffNoRule ==
    match_pc = "done"
        => (matching_blob = None <=> ~SomeRule(blob_name, available_blobs))

\* the same two statements of the loader's copy alone
LoaderMatchesAsClaimed ==
    (match_pc = "done" /\ match_impl = "azure_to_snowflake_loader")
        => /\ matching_blob = None <=> ~SomeRule(blob_name, available_blobs)
           /\ SomeRule(blob_name, available_blobs)
                => matching_blob = EarliestRuleFirstName(blob_name, available_blobs)

-----------------------------------------------------------------------------
(* Schema differ: analyze_column_comparison of generate_column_comparison_ *)
(* csv.py and SchemaAnalyzer.compare_schemas.                              *)

Range(seq) == { seq[m] : m \in 1..Len(seq) }

\* safe(col): re.sub(r'[^a-zA-Z0-9_]', '_', col).lower()
safe(col) == lower(sub_not_ascii_word(col))

\* the row appended for one CSV column; "" is the empty str <<>>
csv_row(csv_col, sf_columns) ==
    LET safe_csv_col == safe(csv_col)
        SameSafe(sf_col) == safe(sf_col) = safe_csv_col
        snowflake_safe_set == { safe(c) : c \in Range(sf_columns) }
    IN  IF safe_csv_col \in snowflake_safe_set
        THEN [ csv_column |-> csv_col,
               snowflake_column |->
                   first_hit(sf_columns, [m \in 1..Len(sf_columns) |-> SameSafe(sf_columns[m])]),
               status |-> "MATCH", source |-> "CSV" ]
        ELSE [ csv_column |-> csv_col, snowflake_column |-> <<>>,
               status |-> "MISSING_IN_SNOWFLAKE", source |-> "CSV" ]

\* the rows appended for the Snowflake-only columns, in table order
RECURSIVE snowflake_only_rows(_, _)
snowflake_only_rows(sf_columns, csv_safe_map) ==
    IF sf_columns = <<>> THEN <<>>
    ELSE LET sf_col == Head(sf_columns)
             rest   == snowflake_only_rows(Tail(sf_columns), csv_safe_map)
         IN  IF safe(sf_col) \notin csv_safe_map
             THEN << [ csv_column |-> <<>>, snowflake_column |-> sf_col,
                       status |-> "EXTRA_IN_SNOWFLAKE", source |-> "SNOWFLAKE" ] >> \o rest
             ELSE rest

\* comparison_data as returned (the table_name and snowflake_type fields of a
\* row, which repeat the arguments, are left out)
analyze_column_comparison(sf_columns, csv_cols) ==
    [ m \in 1..Len(csv_cols) |-> csv_row(csv_cols[m], sf_columns) ]
        \o snowflake_only_rows(sf_columns, { safe(c) : c \in Range(csv_cols) })

\* the dict compare_schemas returns (potential_matches and match_percentage,
\* which are derived from the three sets, are left out)
compare_schemas(csv_headers, sf_columns) ==
    LET csv_set        == Range(csv_headers)
        snowflake_set  == Range(sf_columns)
        exact_matches  == csv_set \cap snowflake_set
        csv_only       == csv_set \ snowflake_set
        snowflake_only == snowflake_set \ csv_set
    IN  [ csv_column_count |-> Len(csv_headers),
          snowflake_column_count |-> Len(sf_columns),
          exact_matches |-> exact_matches,
          exact_match_count |-> Cardinality(exact_matches),
          csv_only_columns |-> csv_only,
          snowflake_only_columns |-> snowflake_only ]

-----------------------------------------------------------------------------
(* SpecDiff: one call of either differ on a CSV header and a table's       *)
(* column list.                                                            *)

MaxDiffCols == 2

DiffNames ==
    { <<"A"," ","B">>, <<"A","_","B">>, <<"a","_","b">>, <<"C">>, <<"D">> }

\* column lists: the columns of a table have distinct names; so has a header
ColumnLists ==
    { l \in UNION { [1..n -> DiffNames] : n \in 0..MaxDiffCols } : IsInjective(l) }

DiffInit ==
    /\ csv_columns \in ColumnLists
    /\ snowflake_columns \in ColumnLists
    /\ comparison_data = <<>>
    /\ schema_comparison = NoComparison
    /\ diff_pc = "start"

\* comparison_data = analyze_column_comparison(cursor, ..., csv_columns)
AnalyzeColumnComparison ==
    /\ diff_pc = "start"
    /\ comparison_data' = analyze_column_comparison(snowflake_columns, csv_columns)
    /\ diff_pc' = "analyze_column_comparison"
    /\ UNCHANGED <<csv_columns, snowflake_columns, schema_comparison>>
    /\ UNCHANGED <<sanVars, loopVars, matchVars, typeVars, pipeVars>>

\* comparison = self.compare_schemas(csv_headers, snowflake_columns);
\* analyze_all_schemas calls it with two non-empty lists only
CompareSchemas ==
    /\ diff_pc = "start"
    /\ csv_columns # <<>>
    /\ snowflake_columns # <<>>
    /\ schema_comparison' = compare_schemas(csv_columns, snowflake_columns)
    /\ diff_pc' = "compare_schemas"
    /\ UNCHANGED <<csv_columns, snowflake_columns, comparison_data>>
    /\ UNCHANGED <<sanVars, loopVars, matchVars, typeVars, pipeVars>>

InitDiff == SanIdle /\ LoopIdle /\ MatchIdle /\ DiffInit /\ TypeIdle /\ PipeIdle
NextDiff == AnalyzeColumnComparison \/ CompareSchemas
SpecDiff == InitDiff /\ [][NextDiff]_vars

\* the three sets of a differ's result: incoming columns reported as
\* matching, target columns reported as matching, missing and extra
RowsWith(st) == { r \in Range(comparison_data) : r.status = st }
MatchingIncoming ==
    IF diff_pc = "compare_schemas" THEN schema_comparison.exact_matches
    ELSE { r.csv_column : r \in RowsWith("MATCH") }
MatchingTarget ==
    IF diff_pc = "compare_schemas" THEN schema_comparison.exact_matches
    ELSE { r.snowflake_column : r \in RowsWith("MATCH") }
MissingInTarget ==
    IF diff_pc = "compare_schemas" THEN schema_comparison.csv_only_columns
    ELSE { r.csv_column : r \in RowsWith("MISSING_IN_SNOWFLAKE") }
ExtraInTarget ==
    IF diff_pc = "compare_schemas" THEN schema_comparison.snowflake_only_columns
    ELSE { r.snowflake_column : r \in RowsWith("EXTRA_IN_SNOWFLAKE") }

DiffPartition ==
    /\ MatchingIncoming \cap MissingInTarget = {}
    /\ MatchingTarget \cap ExtraInTarget = {}
    /\ MissingInTarget \cap ExtraInTarget = {}
    /\ MatchingIncoming \cup MissingInTarget = Range(csv_columns)
    /\ MatchingTarget \cup ExtraInTarget = Range(snowflake_columns)

\* C5: the differ's matching, missing-in-target and extra-in-target sets are
\* pairwise disjoint, matching and missing make up the incoming columns, and
\* matching and extra make up the target columns.
C5_DiffPartition ==
    diff_pc \in {"analyze_column_comparison", "compare_schemas"} => DiffPartition

\* the same statement of SchemaAnalyzer.compare_schemas alone
CompareSchemasPartitions ==
    diff_pc = "compare_schemas" => DiffPartition

-----------------------------------------------------------------------------
(* Type inferencer: analyze_column_type of create_column_type_mapping.py.  *)
(*                                                                         *)
(* A value of the sampled pandas Series is a record: k is its kind ("null" *)
(* for NaN/None), n and f the whole part and the tenths of a number, tok   *)
(* the text str(value) gives and len the length of that text.  A text too  *)
(* long to write out is named by its length ("x*1001").                    *)

Null == [k |-> "null", n |-> 0, f |-> 0, tok |-> "nan", len |-> 3]

RECURSIVE digits(_)
digits(n) == IF n < 10 THEN 1 ELSE 1 + digits(n \div 10)
abs(n) == IF n < 0 THEN -n ELSE n

IntValue(n) ==
    [k |-> "int", n |-> n, f |-> 0, tok |-> ToString(n),
     len |-> digits(abs(n)) + (IF n < 0 THEN 1 ELSE 0)]
FloatValue(n, f, tok) ==
    [k |-> "float", n |-> n, f |-> f, tok |-> tok,
     len |-> digits(abs(n)) + 2 + (IF n < 0 THEN 1 ELSE 0)]
BoolValue(b) ==
    [k |-> "bool", n |-> IF b THEN 1 ELSE 0, f |-> 0,
     tok |-> IF b THEN "True" ELSE "False", len |-> IF b THEN 4 ELSE 5]
StrValue(tok, len) == [k |-> "str", n |-> 0, f |-> 0, tok |-> tok, len |-> len]

\* sample_data.dropna()
dropna(sample) == SelectSeq(sample, LAMBDA v : v.k # "null")

\* the dtype pandas.read_csv gives a column with these values
dtype(sample) ==
    LET kinds == { sample[m].k : m \in 1..Len(sample) }
    IN  IF "str" \in kinds THEN "object"
        ELSE IF "bool" \in kinds THEN "bool"
        ELSE IF kinds \subseteq {"int"} THEN "int64"
        ELSE "float64"

\* the texts pd.to_datetime parses without a format, and those it parses
\* with format='%Y-%m-%d %H:%M:%S'
DateTexts     == {"2023-01-05", "2023-02-10", "2023-01-05 10:00:00"}
DateTimeTexts == {"2023-01-05 10:00:00"}

\* pd.to_datetime(non_null_sample, errors='raise') does not raise: numbers
\* are taken as epoch offsets, a bool column is a TypeError, a text must parse
to_datetime_ok(dt, non_null) ==
    CASE dt \in {"int64", "float64"} -> TRUE
      [] dt = "bool" -> FALSE
      [] OTHER -> \A m \in 1..Len(non_null) : non_null[m].tok \in DateTexts

\* pd.to_datetime(non_null_sample, format='%Y-%m-%d %H:%M:%S', errors='raise')
to_datetime_format_ok(dt, non_null) ==
    /\ dt = "object"
    /\ \A m \in 1..Len(non_null) : non_null[m].tok \in DateTimeTexts

\* the texts pd.to_numeric parses
NumericTexts == {}

\* pd.to_numeric(non_null_sample, errors='raise') does not raise
to_numeric_ok(dt, non_null) ==
    CASE dt \in {"int64", "float64", "bool"} -> TRUE
      [] OTHER -> \A m \in 1..Len(non_null) : non_null[m].tok \in NumericTexts

\* numeric_data.max() of an int64 column
RECURSIVE series_max(_)
series_max(s) ==
    IF Len(s) = 1 THEN s[1].n
    ELSE LET rest == series_max(Tail(s))
         IN  IF s[1].n > rest THEN s[1].n ELSE rest

\* str(value).lower() for the texts of the model
str_lower(tok) ==
    CASE tok = "True"  -> "true"
      [] tok = "False" -> "false"
      [] tok = "YES"   -> "yes"
      [] OTHER -> tok

boolean_values == {"true", "false", "1", "0", "yes", "no", "y", "n"}

\* re.match(email_pattern, str(val))
EmailTexts == {"a@b.co"}

\* non_null_sample.astype(str).str.len().max()
RECURSIVE max_len(_)
max_len(s) ==
    IF Len(s) = 1 THEN s[1].len
    ELSE LET rest == max_len(Tail(s))
         IN  IF s[1].len > rest THEN s[1].len ELSE rest

date_keywords ==
    { <<"d","a","t","e">>, <<"c","r","e","a","t","e","d">>,
      <<"m","o","d","i","f","i","e","d">>, <<"u","p","d","a","t","e","d">>,
      <<"t","i","m","e","s","t","a","m","p">>, <<"t","i","m","e">> }
number_keywords ==
    { <<"a","m","o","u","n","t">>, <<"p","r","i","c","e">>,
      <<"c","o","s","t">>, <<"b","u","d","g","e","t">>,
      <<"t","o","t","a","l">>, <<"s","u","m">>, <<"c","o","u","n","t">>,
      <<"n","u","m","b","e","r">>, <<"i","d">>,
      <<"q","u","a","n","t","i","t","y">>, <<"q","t","y">> }
boolean_keywords ==
    { <<"f","l","a","g">>, <<"i","s","_">>, <<"h","a","s","_">>,
      <<"a","c","t","i","v","e">>, <<"e","n","a","b","l","e","d">>,
      <<"s","t","a","t","u","s">>, <<"b","o","o","l","e","a","n">>,
      <<"b","o","o","l">> }

\* any(keyword in col_lower for keyword in keywords)
any_keyword(col_lower, keywords) == \E kw \in keywords : contains(col_lower, kw)

\* a type under construction: <<name, size>>; <<"VARCHAR", 0>> is the bare
\* "VARCHAR", <<"VARCHAR", 255>> is "VARCHAR(255)", <<"NUMBER", 0>> "NUMBER"
VARCHAR == <<"VARCHAR", 0>>

\* the precision chosen from abs(numeric_data.max())
precision_of(max_val) ==
    IF max_val < 10 THEN 1
    ELSE IF max_val < 100 THEN 2
    ELSE IF max_val < 1000 THEN 4
    ELSE IF max_val < 10000 THEN 5
    ELSE IF max_val < 100000 THEN 6
    ELSE IF max_val < 1000000 THEN 7
    ELSE 10

\* the default VARCHAR length for the longest text of the sample
varchar_bucket(max_length) ==
    IF max_length <= 50 THEN 50
    ELSE IF max_length <= 100 THEN 100
    ELSE IF max_length <= 255 THEN 255
    ELSE IF max_length <= 500 THEN 500
    ELSE 1000

\* snowflake_type after the "Check for DATE keywords and patterns" block
after_date(col_lower, dt, non_null, t) ==
    IF any_keyword(col_lower, date_keywords) /\ Len(non_null) > 0
    THEN IF to_datetime_ok(dt, non_null) THEN <<"DATE", 0>>
         ELSE IF to_datetime_format_ok(dt, non_null) THEN <<"TIMESTAMP", 0>>
         ELSE t
    ELSE t

\* [type, precision] after the "Check for NUMBER/AMOUNT keywords" block;
\* precision 0 is None
after_number(col_lower, dt, non_null, t) ==
    IF /\ any_keyword(col_lower, number_keywords)
       /\ Len(non_null) > 0
       /\ to_numeric_ok(dt, non_null)
    THEN IF dt = "int64"
         THEN [type |-> <<"NUMBER", 0>>,
               precision |-> precision_of(abs(series_max(non_null)))]
         ELSE [type |-> <<"FLOAT", 0>>, precision |-> 0]
    ELSE [type |-> t, precision |-> 0]

\* snowflake_type after the "Check for BOOLEAN keywords" block
after_boolean(col_lower, non_null, t) ==
    LET unique_values == { str_lower(non_null[m].tok) : m \in 1..Len(non_null) }
    IN  IF /\ any_keyword(col_lower, boolean_keywords)
           /\ Len(non_null) > 0
           /\ Cardinality(unique_values) <= 4
           /\ unique_values \subseteq boolean_values
        THEN <<"BOOLEAN", 0>>
        ELSE t

\* [type, precision] after the "Check for specific patterns in data" block
after_patterns(col_lower, dt, non_null, tp) ==
    LET has(word) == contains(col_lower, word)
        head10 == SubSeq(non_null, 1, IF Len(non_null) < 10 THEN Len(non_null) ELSE 10)
    IN  IF Len(non_null) = 0 THEN tp
        ELSE IF has(<<"e","m","a","i","l">>) \/ has(<<"m","a","i","l">>)
        THEN IF \A m \in 1..Len(head10) : head10[m].tok \in EmailTexts
             THEN [tp EXCEPT !.type = <<"VARCHAR", 255>>] ELSE tp
        ELSE IF has(<<"p","h","o","n","e">>) \/ has(<<"t","e","l">>) THEN [tp EXCEPT !.type = <<"VARCHAR", 20>>]
        ELSE IF has(<<"u","r","l">>) \/ has(<<"l","i","n","k">>) \/ has(<<"w","e","b","s","i","t","e">>)
        THEN [tp EXCEPT !.type = <<"VARCHAR", 500>>]
        ELSE IF has(<<"n","a","m","e">>) THEN [tp EXCEPT !.type = <<"VARCHAR", 100>>]
        ELSE IF has(<<"d","e","s","c","r","i","p","t","i","o","n">>) \/ has(<<"d","e","s","c">>) \/ has(<<"n","o","t","e","s">>)
        THEN [tp EXCEPT !.type = <<"VARCHAR", 1000>>]
        ELSE IF has(<<"c","o","d","e">>) \/ has(<<"i","d">>)
        THEN IF to_numeric_ok(dt, non_null)
             THEN [type |-> <<"NUMBER", 0>>, precision |-> 10]
             ELSE [tp EXCEPT !.type = <<"VARCHAR", 50>>]
        ELSE tp

\* analyze_column_type(column_name, sample_data): the returned type string,
\* <<name, size>> with size 0 when the string has no parenthesis.  The
\* sample is at most max_sample_size values long, so that it is not resampled.
analyze_column_type(name, sample) ==
    LET col_lower == lower(name)
        dt        == dtype(sample)
        non_null  == dropna(sample)
        t1 == after_date(col_lower, dt, non_null, VARCHAR)
        t2 == after_number(col_lower, dt, non_null, t1)
        t3 == [t2 EXCEPT !.type = after_boolean(col_lower, non_null, t2.type)]
        t4 == after_patterns(col_lower, dt, non_null, t3)
    IN  IF t4.type = <<"NUMBER", 0>> /\ t4.precision # 0
        THEN <<"NUMBER", t4.precision>>
        ELSE IF t4.type = VARCHAR
        THEN IF Len(non_null) > 0
             THEN <<"VARCHAR", varchar_bucket(max_len(non_null))>>
             ELSE <<"VARCHAR", 255>>
        ELSE t4.type

-----------------------------------------------------------------------------
(* SpecType: one call of analyze_column_type on a column of a DataFrame    *)
(* read by pandas.read_csv.                                                *)

MaxSample == 2

TypeColumnNames ==
    { <<"c","r","e","a","t","e","d","_","d","a","t","e">>,
      <<"a","m","o","u","n","t">>, <<"i","s","_","a","c","t","i","v","e">>,
      <<"i","s","_","v","a","l","i","d">>,
      <<"d","a","t","e","_","c","o","u","n","t">>,
      <<"a","c","t","i","v","e","_","c","o","u","n","t">>,
      <<"n","o","t","e","s">>, <<"n","a","m","e">>, <<"f","o","o">>,
      <<"e","m","a","i","l">>, <<"p","h","o","n","e">>,
      <<"o","r","d","e","r","_","i","d">> }

IntValues   == { IntValue(0), IntValue(1), IntValue(3), IntValue(300),
                 IntValue(2021), IntValue(-500) }
FloatValues == { FloatValue(3, 0, "3.0"), FloatValue(12, 5, "12.5"), Null }
BoolValues  == { BoolValue(TRUE), BoolValue(FALSE) }
StrValues   == { StrValue("2023-01-05", 10), StrValue("true", 4), StrValue("YES", 3),
                 StrValue("abc", 3), StrValue("a@b.co", 6), StrValue("x*51", 51),
                 StrValue("x*1001", 1001), Null }

SeqsOver(S) == UNION { [1..n -> S] : n \in 0..MaxSample }

\* the columns read_csv produces: all int, float or missing, all bool, or
\* text or missing
Samples ==
    SeqsOver(IntValues) \cup SeqsOver(FloatValues) \cup SeqsOver(BoolValues)
        \cup SeqsOver(StrValues)

TypeInit ==
    /\ type_column \in TypeColumnNames
    /\ sample_data \in Samples
    /\ snowflake_type = NoType
    /\ type_pc = "start"

\* snowflake_type = analyze_column_type(cleaned_col, df[original_col])
AnalyzeColumnType ==
    /\ type_pc = "start"
    /\ snowflake_type' = analyze_column_type(type_column, sample_data)
    /\ type_pc' = "done"
    /\ UNCHANGED <<type_column, sample_data>>
    /\ UNCHANGED <<sanVars, loopVars, matchVars, diffVars, pipeVars>>

InitType == SanIdle /\ LoopIdle /\ MatchIdle /\ DiffIdle /\ TypeInit /\ PipeIdle
NextType == AnalyzeColumnType
SpecType == InitType /\ [][NextType]_vars

\* the name condition and the value condition of the three heuristics
DateHeuristic ==
    LET nn == dropna(sample_data)
    IN  /\ any_keyword(lower(type_column), date_keywords)
        /\ Len(nn) > 0
        /\ to_datetime_ok(dtype(sample_data), nn) \/ to_datetime_format_ok(dtype(sample_data), nn)
NumberHeuristic ==
    LET nn == dropna(sample_data)
    IN  /\ any_keyword(lower(type_column), number_keywords)
        /\ Len(nn) > 0
        /\ to_numeric_ok(dtype(sample_data), nn)
BooleanHeuristic ==
    LET nn == dropna(sample_data)
        unique_values == { str_lower(nn[m].tok) : m \in 1..Len(nn) }
    IN  /\ any_keyword(lower(type_column), boolean_keywords)
        /\ Len(nn) > 0
        /\ Cardinality(unique_values) <= 4
        /\ unique_values \subseteq boolean_values

\* C8: the heuristics are tried in the order date, numeric, boolean, default
\* string, and the first one whose conditions hold decides the returned type.
C8_FirstMatchWins ==
    type_pc = "done" =>
        /\ DateHeuristic => snowflake_type[1] \in {"DATE", "TIMESTAMP"}
        /\ (~DateHeuristic /\ NumberHeuristic) => snowflake_type[1] \in {"NUMBER", "FLOAT"}
        /\ (~DateHeuristic /\ ~NumberHeuristic /\ BooleanHeuristic)
              => snowflake_type[1] = "BOOLEAN"
        /\ (~DateHeuristic /\ ~NumberHeuristic /\ ~BooleanHeuristic)
              => snowflake_type[1] = "VARCHAR"

AllIntegers(s) == \A m \in 1..Len(s) : s[m].k \in {"int", "float"} /\ s[m].f = 0
MaxMagnitude(s) ==
    CHOOSE a \in { abs(s[m].n) : m \in 1..Len(s) } :
        \A m \in 1..Len(s) : abs(s[m].n) <= a

\* C9: a returned NUMBER(p) for a sample whose non-null values are all
\* integers has p at least the number of digits of the largest magnitude.
C9_PrecisionCoversMagnitude ==
    LET nn == dropna(sample_data)
    IN  (/\ type_pc = "done"
         /\ snowflake_type[1] = "NUMBER"
         /\ Len(nn) > 0
         /\ AllIntegers(nn))
            => snowflake_type[2] >= digits(MaxMagnitude(nn))

\* the smallest of the buckets 50, 100, 255, 500, 1000 that is >= n
Buckets == {50, 100, 255, 500, 1000}
SmallestBucket(n) ==
    CHOOSE b \in Buckets : b >= n /\ \A c \in Buckets : c >= n => b <= c

\* C10: when no date, numeric or boolean heuristic applies, the result is
\* VARCHAR(n) with n the smallest bucket holding the longest sampled value
\* (255 for a sample without values), so n is at least that length.
C10_VarcharBucket ==
    LET nn == dropna(sample_data)
    IN  (type_pc = "done" /\ ~DateHeuristic /\ ~NumberHeuristic /\ ~BooleanHeuristic)
            => /\ snowflake_type[1] = "VARCHAR"
               /\ Len(nn) = 0 => snowflake_type[2] = 255
               /\ Len(nn) > 0 =>
                     /\ snowflake_type[2] >= max_len(nn)
                     /\ snowflake_type[2] = SmallestBucket(max_len(nn))

-----------------------------------------------------------------------------
(* add_test_columns.py: two columns are added to PUBLIC.PROJECTS, each by  *)
(* its own ALTER TABLE inside its own try/except.                          *)

\* the columns the script adds, in the order of its statements
AtcColumns == <<"c-test", "c-test2">>

\* the columns PUBLIC.PROJECTS may have when the script starts
ProjectsColumnNames == {"ID", "NAME", "c-test", "c-test2"}

\* the statement after the try/except of AtcColumns[m]
atc_next(m) == IF m < Len(AtcColumns) THEN "add" ELSE "close"

AtcInit ==
    /\ projects_columns \in SUBSET ProjectsColumnNames
    /\ atc_executed = <<>>
    /\ atc_stdout = <<>>
    /\ atc_pc = "connect"

\* lines 7-30: settings, private key, snowflake.connector.connect, cursor;
\* any of them may raise, and nothing catches it
AtcConnect ==
    /\ atc_pc = "connect"
    /\ \E ok \in BOOLEAN : atc_pc' = IF ok THEN "add" ELSE "crashed"
    /\ UNCHANGED <<projects_columns, atc_executed, atc_stdout>>
    /\ UNCHANGED notAtcVars

\* AtcAddColumn with both ALTER TABLE statements inside one try block: the
\* first failure skips what is left of the block
AtcAddColumnInOneTry ==
    /\ atc_pc = "add"
    /\ LET m      == Len(atc_executed) + 1
           column == AtcColumns[m]
       IN  /\ atc_executed' = Append(atc_executed, column)
           /\ \E accepted \in BOOLEAN :
                IF accepted /\ column \notin projects_columns
                THEN /\ projects_columns' = projects_columns \cup {column}
                     /\ atc_stdout' = Append(atc_stdout,
                            [line |-> "Added column", column |-> column])
                     /\ atc_pc' = atc_next(m)
                ELSE /\ projects_columns' = projects_columns
                     /\ atc_stdout' = Append(atc_stdout,
                            [line |-> "Error adding", column |-> column])
                     /\ atc_pc' = "close"
    /\ UNCHANGED notAtcVars

\* try: cur.execute('ALTER TABLE PUBLIC.PROJECTS ADD COLUMN "<column>" ...');
\*      print('Added column: <column>')
\* except Exception as e: print(f'Error adding <column>: {e}')
\* The warehouse rejects the statement when the column exists, and may reject
\* it for a reason of its own (accepted = FALSE).
AtcAddColumn ==
    /\ atc_pc = "add"
    /\ LET m      == Len(atc_executed) + 1
           column == AtcColumns[m]
       IN  /\ atc_executed' = Append(atc_executed, column)
           /\ \E accepted \in BOOLEAN :
                IF accepted /\ column \notin projects_columns
                THEN /\ projects_columns' = projects_columns \cup {column}
                     /\ atc_stdout' = Append(atc_stdout,
                            [line |-> "Added column", column |-> column])
                ELSE /\ projects_columns' = projects_columns
                     /\ atc_stdout' = Append(atc_stdout,
                            [line |-> "Error adding", column |-> column])
           /\ atc_pc' = atc_next(m)
    /\ UNCHANGED notAtcVars

\* cur.close(); conn.close(); print('Done.')
AtcClose ==
    /\ atc_pc = "close"
    /\ atc_stdout' = Append(atc_stdout, [line |-> "Done.", column |-> ""])
    /\ atc_pc' = "done"
    /\ UNCHANGED <<projects_columns, atc_executed>>
    /\ UNCHANGED notAtcVars

InitAtc == AtcInit /\ NotAtcIdle
NextAtc == AtcConnect \/ AtcAddColumn \/ AtcClose
SpecAtc == InitAtc /\ [][NextAtc]_vars

\* the lines of the output that report the outcome of the operation on c
OutcomeLines(c) ==
    { m \in 1..Len(atc_stdout) :
        /\ atc_stdout[m].column = c
        /\ atc_stdout[m].line \in {"Added column", "Error adding"} }
Attempts(c) == { m \in 1..Len(atc_executed) : atc_executed[m] = c }

-----------------------------------------------------------------------------
(* One table of a schema pass, by SchemaSyncPipeline.process_table (the    *)
(* orchestrator's schema synchronization stage) or by the loop body of     *)
(* recreate_tables_final.recreate_tables_with_max_varchar, and the diff of *)
(* the incoming columns against the table afterwards.                      *)


ReconImpls == {"schema_sync_pipeline", "recreate_tables_final"}

\* clean_col_name = col_name.strip().replace(' ', '_').replace('-', '_')
create_table_from_csv_schema_clean_col_name(col_name) ==
    LET stripped == strip(col_name, Whitespace)
    IN  [m \in 1..Len(stripped) |->
            IF stripped[m] \in {" ", "-"} THEN "_" ELSE stripped[m]]

\* the identifier each script derives from an incoming label
incoming_identifier(impl, col) ==
    CASE impl = "schema_sync_pipeline"  -> create_table_from_csv_schema_clean_col_name(col)
      [] impl = "recreate_tables_final" -> recreate_tables_final_clean_column_name(col)

incoming_identifiers(impl, header) ==
    [m \in 1..Len(header) |-> incoming_identifier(impl, header[m])]

MaxReconCols == 3

ID        == <<"I","D">>
NAME      == <<"N","A","M","E">>
NOTES     == <<"N","O","T","E","S">>
OLD_FIELD == <<"O","L","D","_","F","I","E","L","D">>

\* the names of a table's columns, and the labels of a CSV header: the same
\* names and one label with a space, which both scripts clean to OLD_FIELD
TargetColumnNames == {ID, NAME, NOTES, OLD_FIELD}
HeaderLabels == TargetColumnNames \cup { <<"O","L","D"," ","F","I","E","L","D">> }

\* a header, or a table, has at least one column and no two of the same name
NamedColumns(names) ==
    { l \in UNION { [1..n -> names] : n \in 1..MaxReconCols } : IsInjective(l) }

ReconInit ==
    /\ recon_impl \in ReconImpls
    /\ csv_header \in NamedColumns(HeaderLabels)
    /\ target_exists \in BOOLEAN
    /\ target_columns \in
          IF target_exists THEN NamedColumns(TargetColumnNames) ELSE { <<>> }
    /\ table_result = "pending"
    /\ residual = NoComparison
    /\ recon_pc = "start"

\* SchemaSyncPipeline.process_table: file format, stage, CREATE OR REPLACE
\* TABLE from the CSV header when check_table_exists says the table is not
\* there (it also says so when its query fails), COPY INTO, verification.
\* A table that exists is left with the columns it has.  The column names
\* of the CREATE statement are not quoted, so the warehouse stores them in
\* upper case and rejects two equal ones.
SchemaSyncProcessTable ==
    /\ recon_pc = "start"
    /\ recon_impl = "schema_sync_pipeline"
    /\ \E file_format_ok, stage_ok, check_ok, create_ok, load_ok \in BOOLEAN :
          LET exists_seen == check_ok /\ target_exists
              columns == [m \in 1..Len(csv_header) |->
                            upper(incoming_identifier(recon_impl, csv_header[m]))]
              creating == file_format_ok /\ stage_ok /\ ~exists_seen
              created  == creating /\ create_ok /\ IsInjective(columns)
          IN  /\ target_exists' = (target_exists \/ created)
              /\ target_columns' = IF created THEN columns ELSE target_columns
              /\ table_result' =
                    IF /\ file_format_ok /\ stage_ok
                       /\ (exists_seen \/ created)
                       /\ load_ok
                    THEN "success" ELSE "failed"
    /\ recon_pc' = "processed"
    /\ UNCHANGED <<recon_impl, csv_header, residual>>
    /\ UNCHANGED notReconVars

\* the loop body of recreate_tables_with_max_varchar for one table: find and
\* download the blob, drop_table, create_table_with_max_varchar (the column
\* names quoted, so kept as cleaned), load_data_to_snowflake,
\* verify_data_integrity
RecreateTable ==
    /\ recon_pc = "start"
    /\ recon_impl = "recreate_tables_final"
    /\ \E downloaded, drop_ok, create_ok, load_ok, verification_passed \in BOOLEAN :
          LET columns == incoming_identifiers(recon_impl, csv_header)
              dropped == downloaded /\ drop_ok
              created == dropped /\ create_ok /\ IsInjective(columns)
          IN  /\ target_exists' = IF dropped THEN created ELSE target_exists
              /\ target_columns' =
                    IF created THEN columns
                    ELSE IF dropped THEN <<>> ELSE target_columns
              /\ table_result' =
                    IF ~(created /\ load_ok) THEN "failed"
                    ELSE IF verification_passed THEN "success" ELSE "warning"
    /\ recon_pc' = "processed"
    /\ UNCHANGED <<recon_impl, csv_header, residual>>
    /\ UNCHANGED notReconVars

\* the diff run after the pass: SchemaAnalyzer.compare_schemas of the
\* incoming identifiers and the table's columns
DiffAfterPass ==
    /\ recon_pc = "processed"
    /\ residual' = compare_schemas(incoming_identifiers(recon_impl, csv_header),
                                   target_columns)
    /\ recon_pc' = "diffed"
    /\ UNCHANGED <<recon_impl, csv_header, target_exists, target_columns, table_result>>
    /\ UNCHANGED notReconVars

InitRecon == ReconInit /\ NotReconIdle
NextRecon == SchemaSyncProcessTable \/ RecreateTable \/ DiffAfterPass
SpecRecon == InitRecon /\ [][NextRecon]_vars

\* C12: after a pass that did not fail, the diff of the incoming column set
\* against the table has nothing missing in the target and nothing extra in
\* the target.
C12_Convergent ==
    (recon_pc = "diffed" /\ table_result \in {"success", "warning"})
        => /\ residual.csv_only_columns = {}
           /\ residual.snowflake_only_columns = {}

\* the same statement of recreate_tables_final alone
RecreateConverges ==
    recon_impl = "recreate_tables_final" => C12_Convergent

\* C26: a step of recreate_tables_with_max_varchar's loop body on a table
\* that exists leaves a table that exists: the original, or the one created
\* in its place.
C26_ExistingTableSurvives ==
    [][(recon_impl = "recreate_tables_final" /\ recon_pc = "start" /\ target_exists)
          => target_exists']_vars

\* a table is there after the loop body whenever the body did not fail
RecreatedTableExists ==
    (recon_impl = "recreate_tables_final" /\ recon_pc = "processed"
        /\ table_result \in {"success", "warning"}) => target_exists

-----------------------------------------------------------------------------
(* The per-table loop of the scripts that go through table_mapping.json:   *)
(* load_from_azure(), AzureToSnowflakeLoader.run_pipeline,                 *)
(* PreLoadCleaner.run_cleaning and SchemaSyncPipeline.run_pipeline, each   *)
(* with the exit code its main gives the process.                          *)

LoadImpls == {"load_from_azure", "azure_to_snowflake_loader",
              "pre_load_cleaner", "schema_sync_pipeline"}

\* PreLoadCleaner.find_matching_blob
PreLoadCleaner_find_matching_blob(target_name, blobs) ==
    LET csv_name     == target_name \o DotCsv
        target_lower == lower(target_name)
        SameIgnoringCase(blob) ==
            lower(blob) = target_lower \/ lower(blob) = target_lower \o DotCsv
        Partial(blob) ==
            contains(lower(blob), target_lower) \/ contains(target_lower, lower(blob))
    IN  IF InList(target_name, blobs) THEN target_name
        ELSE IF InList(csv_name, blobs) THEN csv_name
        ELSE IF \E m \in 1..Len(blobs) : SameIgnoringCase(blobs[m])
             THEN first_hit(blobs, [m \in 1..Len(blobs) |-> SameIgnoringCase(blobs[m])])
        ELSE first_hit(blobs, [m \in 1..Len(blobs) |-> Partial(blobs[m])])

\* the blob a script takes for a table; SchemaSyncPipeline.process_table
\* does no matching and names the blob f"{azure_csv_name}.csv"
table_blob(impl, azure_csv_name, blobs) ==
    CASE impl = "load_from_azure" ->
            load_from_azure_find_matching_blob(azure_csv_name, blobs)
      [] impl = "azure_to_snowflake_loader" ->
            AzureToSnowflakeLoader_find_matching_blob(azure_csv_name, blobs)
      [] impl = "pre_load_cleaner" ->
            PreLoadCleaner_find_matching_blob(azure_csv_name, blobs)
      [] impl = "schema_sync_pipeline" -> azure_csv_name \o DotCsv

\* `if not matching_blob`: None, and the empty str
not_matching(blob) == blob = None \/ blob = <<>>

\* 'verification': None / no count taken
NoCount == -1

\* what can happen to a table once its blob is chosen
TableEvents ==
    {"download_failed", "no_table", "load_failed", "exception",
     "verify_failed", "loaded"}

\* the count SELECT COUNT(*) gives after the load
ActualCounts == {0, 1, 2}

\* the result appended for one table by the loop of load_from_azure();
\* loaded: load_data_to_snowflake returned success and rows_loaded was set
load_from_azure_table_result(mapping, blobs, event, actual_count) ==
    LET matching_blob_ ==
            load_from_azure_find_matching_blob(mapping.azure_csv_name, blobs)
        result == [azure_csv_name |-> mapping.azure_csv_name, status |-> "pending",
                   loaded |-> FALSE, actual_count |-> NoCount]
    IN  IF not_matching(matching_blob_) THEN [result EXCEPT !.status = "failed"]
        ELSE IF event \in {"download_failed", "no_table", "load_failed", "exception"}
             THEN [result EXCEPT !.status = "failed"]
        ELSE IF event = "verify_failed"
             THEN [result EXCEPT !.status = "warning", !.loaded = TRUE,
                                 !.actual_count = 0]
        ELSE [result EXCEPT
                 !.status = IF actual_count = mapping.estimated_row_count
                            THEN "success" ELSE "warning",
                 !.loaded = TRUE, !.actual_count = actual_count]

\* the result appended for one table by AzureToSnowflakeLoader.run_pipeline,
\* updated with what load_to_snowflake returns
AzureToSnowflakeLoader_table_result(mapping, blobs, event, actual_count) ==
    LET matching_blob_ ==
            AzureToSnowflakeLoader_find_matching_blob(mapping.azure_csv_name, blobs)
        result == [azure_csv_name |-> mapping.azure_csv_name, status |-> "pending",
                   loaded |-> FALSE, actual_count |-> NoCount]
    IN  IF not_matching(matching_blob_) THEN [result EXCEPT !.status = "failed"]
        ELSE IF event \in {"download_failed", "exception"}
             THEN [result EXCEPT !.status = "failed"]
        ELSE IF event \in {"no_table", "load_failed", "verify_failed"}
             THEN [result EXCEPT !.status = "failed", !.actual_count = 0]
        ELSE [result EXCEPT !.status = "success", !.loaded = TRUE,
                            !.actual_count = actual_count]

\* the result PreLoadCleaner.process_table returns (it cleans and uploads
\* the CSV: nothing is loaded, no rows are counted)
PreLoadCleaner_table_result(mapping, blobs, event, actual_count) ==
    LET matching_blob_ ==
            PreLoadCleaner_find_matching_blob(mapping.azure_csv_name, blobs)
        result == [azure_csv_name |-> mapping.azure_csv_name, status |-> "pending",
                   loaded |-> FALSE, actual_count |-> NoCount]
    IN  IF not_matching(matching_blob_) THEN [result EXCEPT !.status = "blob_not_found"]
        ELSE IF event = "no_table"
             THEN [result EXCEPT !.status = "snowflake_schema_failed"]
        ELSE IF event \in {"download_failed", "load_failed", "exception"}
             THEN [result EXCEPT !.status = "error"]
        ELSE IF event = "verify_failed"
             THEN [result EXCEPT !.status = "verification_failed"]
        ELSE [result EXCEPT !.status = "success"]

\* the result SchemaSyncPipeline.process_table returns: `failed` unless the
\* COPY INTO went through; then the verification's row_count, and
\* table_result["status"] = "success" over whatever status verify_data_load
\* gave
SchemaSyncPipeline_table_result(mapping, blobs, event, actual_count) ==
    LET result == [azure_csv_name |-> mapping.azure_csv_name, status |-> "failed",
                   loaded |-> FALSE, actual_count |-> 0]
    IN  IF event \in {"download_failed", "no_table", "load_failed", "exception"}
        THEN result
        ELSE IF event = "verify_failed"
             THEN [result EXCEPT !.status = "success", !.loaded = TRUE]
        ELSE [result EXCEPT !.status = "success", !.loaded = TRUE,
                            !.actual_count = actual_count]

table_result_of(impl, mapping, blobs, event, actual_count) ==
    CASE impl = "load_from_azure" ->
            load_from_azure_table_result(mapping, blobs, event, actual_count)
      [] impl = "azure_to_snowflake_loader" ->
            AzureToSnowflakeLoader_table_result(mapping, blobs, event, actual_count)
      [] impl = "pre_load_cleaner" ->
            PreLoadCleaner_table_result(mapping, blobs, event, actual_count)
      [] impl = "schema_sync_pipeline" ->
            SchemaSyncPipeline_table_result(mapping, blobs, event, actual_count)

\* what can happen before the loop: the configuration files cannot be read,
\* the container cannot be listed, the warehouse refuses the connection
\* (SchemaSyncPipeline lists no blobs)
StartEvents(impl) ==
    IF impl = "schema_sync_pipeline" THEN {"config_error", "connect_failed", "ok"}
    ELSE {"config_error", "list_blobs_failed", "connect_failed", "ok"}

\* the exit code of the process when the script ends before its loop.
\* load_from_azure(): `if available_blobs is None: ... return`, and the
\* module ends normally; every other failure is raised out of the script.
\* AzureToSnowflakeLoader / PreLoadCleaner: run_* raises, main logs and
\* sys.exit(1).  SchemaSyncPipeline: run_pipeline returns results without a
\* table, main returns 1.
early_returncode(impl, event) ==
    IF impl = "load_from_azure" /\ event = "list_blobs_failed" THEN 0 ELSE 1

tables_successful(rs) == Cardinality({ m \in 1..Len(rs) : rs[m].status = "success" })

\* the exit code of the process when the loop has ended: only
\* schema_sync_pipeline.main looks at the results
main_returncode(impl, rs) ==
    IF impl = "schema_sync_pipeline"
    THEN IF tables_successful(rs) > 0 THEN 0 ELSE 1
    ELSE 0

MaxTables == 2
MaxLoadBlobs == 2

EstimatedRowCounts == {1, 2}

\* table_mapping.json: one entry per table, no two for the same CSV
Mappings ==
    { t \in UNION { [1..n -> [azure_csv_name : LogicalNames,
                              estimated_row_count : EstimatedRowCounts]] :
                    n \in 1..MaxTables } :
        \A m, n \in 1..Len(t) :
            t[m].azure_csv_name = t[n].azure_csv_name => m = n }

LoadBlobNames ==
    { <<"a","b",".","c","s","v">>, <<"A","B",".","c","s","v">>,
      <<"x","a","b","y",".","c","s","v">> }

LoadListings ==
    { l \in UNION { [1..n -> LoadBlobNames] : n \in 0..MaxLoadBlobs } : IsInjective(l) }

LoadInit ==
    /\ load_impl \in LoadImpls
    /\ table_mapping \in Mappings
    /\ container_blobs \in LoadListings
    /\ results = <<>>
    /\ load_i = 0
    /\ start_event = "none"
    /\ load_pc = "start"
    /\ returncode = NoReturncode

\* everything before the loop
LoadStart ==
    /\ load_pc = "start"
    /\ \E event \in StartEvents(load_impl) :
          /\ start_event' = event
          /\ IF event = "ok"
             THEN load_pc' = "loop" /\ returncode' = returncode
             ELSE load_pc' = "exited" /\ returncode' = early_returncode(load_impl, event)
    /\ UNCHANGED <<load_impl, table_mapping, container_blobs, results, load_i>>
    /\ UNCHANGED notLoadVars

\* LoadTable leaving the loop at the first table without a matching blob
LoadTableUntilNoMatch ==
    /\ load_pc = "loop"
    /\ load_i < Len(table_mapping)
    /\ \E event \in TableEvents, actual_count \in ActualCounts :
          LET mapping == table_mapping[load_i + 1]
              blob == table_blob(load_impl, mapping.azure_csv_name, container_blobs)
          IN  /\ results' = Append(results,
                     table_result_of(load_impl, mapping, container_blobs,
                                     event, actual_count))
              /\ load_i' = IF not_matching(blob) THEN Len(table_mapping)
                           ELSE load_i + 1
    /\ UNCHANGED <<load_impl, table_mapping, container_blobs, start_event, load_pc, returncode>>
    /\ UNCHANGED notLoadVars

\* one iteration of `for ... in table_mapping`: every path through the body
\* appends the table's result once and goes on with the next table
LoadTable ==
    /\ load_pc = "loop"
    /\ load_i < Len(table_mapping)
    /\ \E event \in TableEvents, actual_count \in ActualCounts :
          results' = Append(results,
              table_result_of(load_impl, table_mapping[load_i + 1],
                              container_blobs, event, actual_count))
    /\ load_i' = load_i + 1
    /\ UNCHANGED <<load_impl, table_mapping, container_blobs, start_event, load_pc, returncode>>
    /\ UNCHANGED notLoadVars

\* after the loop: the summary, and the end of the process
LoadExit ==
    /\ load_pc = "loop"
    /\ load_i = Len(table_mapping)
    /\ load_pc' = "exited"
    /\ returncode' = main_returncode(load_impl, results)
    /\ UNCHANGED <<load_impl, table_mapping, container_blobs, results, load_i, start_event>>
    /\ UNCHANGED notLoadVars

InitLoad == LoadInit /\ NotLoadIdle
NextLoad == LoadStart \/ LoadTable \/ LoadExit
SpecLoad == InitLoad /\ [][NextLoad]_vars

\* the loop has gone through the whole mapping
LoopEnded == load_pc = "exited" /\ load_i = Len(table_mapping)

\* C17: a table whose bulk load succeeded and whose row count after the
\* load differs from the mapping's expected count has the status warning,
\* not failed (nor any other), and the loop goes on: every table gone
\* through has its result.
C17_MismatchIsWarning ==
    /\ Len(results) = load_i
    /\ \A k \in 1..Len(results) :
          (/\ results[k].loaded
           /\ results[k].actual_count # table_mapping[k].estimated_row_count)
              => results[k].status = "warning"

\* the same statement of load_from_azure() alone
LoadFromAzureWarns ==
    load_impl = "load_from_azure" => C17_MismatchIsWarning

\* the statuses that report a table as not processed
FailureStatuses ==
    {"failed", "blob_not_found", "snowflake_schema_failed", "error",
     "verification_failed"}

NoMatchFor(k) ==
    not_matching(table_blob(load_impl, table_mapping[k].azure_csv_name,
                            container_blobs))

\* C18: when the loop has ended, the results have exactly one entry per
\* configured table, in the order of the mapping, and the entry of a table
\* without a matching source file reports a failure.
C18_NoMatchFailsOnlyThatTable ==
    LoopEnded
        => /\ Len(results) = Len(table_mapping)
           /\ \A k \in 1..Len(table_mapping) :
                 /\ results[k].azure_csv_name = table_mapping[k].azure_csv_name
                 /\ NoMatchFor(k) => results[k].status \in FailureStatuses

\* the first table has no matching blob and is reported failed, the second
\* one is processed and succeeds
C18_Witness ==
    /\ LoopEnded
    /\ Len(table_mapping) = 2
    /\ NoMatchFor(1)
    /\ results[1].status \in FailureStatuses
    /\ results[2].status = "success"

-----------------------------------------------------------------------------
(* SpecOrch: PipelineOrchestrator.run_pipeline.  Each run_<stage> method   *)
(* looks for the stage's script, starts it with subprocess.run and blocks  *)
(* until the process has ended; the processes of schema_sync_pipeline.py   *)
(* and load_from_azure.py run the per-table loop above.                     *)

\* the scripts whose process goes through table_mapping.json
LoopStages == {"schema_sync", "load_from_azure"}

\* the script a stage runs, as load_impl names it
stage_script(s) == IF s = "schema_sync" THEN "schema_sync_pipeline" ELSE s

\* what run_<stage> does before it blocks: the script is not there (return
\* False, nothing recorded), subprocess.run raises (status "error"), or the
\* process is started
CallOutcomes == {"missing", "raised", "started"}

\* run_pipeline after a stage, leaving at the first stage that failed
after_stage_halting(k, stage_success) ==
    IF k = Len(StageOrder) \/ ~stage_success THEN "verify" ELSE "call"

\* run_pipeline after run_<stage> has returned: the next stage whatever
\* stage_success is, verify_output_files after the last one
after_stage(k, stage_success) ==
    IF k = Len(StageOrder) THEN "verify" ELSE "call"

\* the configuration of a run: table_mapping.json with every table expected
\* to have one row, and a container that is empty or has one blob
OrchMappings ==
    { t \in Mappings : \A m \in 1..Len(t) : t[m].estimated_row_count = 1 }
OrchListings == { l \in LoadListings : Len(l) <= 1 }

\* no stage process yet; the configuration the stage processes will read
OrchChildrenInit ==
    /\ load_impl = NoImpl
    /\ table_mapping \in OrchMappings
    /\ container_blobs \in OrchListings
    /\ results = <<>>
    /\ load_i = 0
    /\ start_event = "none"
    /\ load_pc = "idle"
    /\ returncode = NoReturncode

OrchInit ==
    /\ orch_pc = "call"
    /\ orch_k = 1
    /\ stage_calls = <<>>
    /\ procs = NoProcs
    /\ stages = NoStages
    /\ successful_stages = 0
    /\ failed_stages = 0
    /\ overall_success = FALSE
    /\ total_stages = InitialTotalStages
    /\ stage_return_code = NoReturnCodes
    /\ exit_code = NoReturncode
    /\ OrchChildrenInit

\* run_<stage> up to subprocess.run; before the first stage run_pipeline
\* sets results["total_stages"] = 4
OrchRunStage ==
    /\ orch_pc = "call"
    /\ total_stages' = IF orch_k = 1 THEN Len(StageOrder) ELSE total_stages
    /\ LET s == StageOrder[orch_k]
       IN  /\ stage_calls' = Append(stage_calls, s)
           /\ \E outcome \in CallOutcomes :
                 IF outcome = "started"
                 THEN /\ procs' = [procs EXCEPT ![s] = "running"]
                      /\ orch_pc' = "wait"
                      /\ load_impl' = stage_script(s)
                      /\ load_pc' = IF s \in LoopStages THEN "start" ELSE "run"
                      /\ results' = <<>>
                      /\ load_i' = 0
                      /\ start_event' = "none"
                      /\ returncode' = NoReturncode
                      /\ UNCHANGED <<orch_k, stages, failed_stages>>
                 ELSE /\ stages' = IF outcome = "raised"
                                   THEN [stages EXCEPT ![s] = "error"]
                                   ELSE stages
                      /\ failed_stages' = failed_stages + 1
                      /\ orch_pc' = after_stage(orch_k, FALSE)
                      /\ orch_k' = orch_k + 1
                      /\ UNCHANGED <<procs, load_impl, load_pc, results, load_i,
                                     start_event, returncode>>
    /\ UNCHANGED <<successful_stages, overall_success, table_mapping, container_blobs>>
    /\ UNCHANGED <<stage_return_code, exit_code>>
    /\ UNCHANGED <<notRunVars, apiVars>>

\* the process of data_query.py or csv_cleaner.py ends: data_query.main
\* returns 0 if any endpoint gave data and 1 if none did, csv_cleaner.py
\* exits with 1 without a connection string or on an exception
OrchChildExit ==
    /\ load_pc = "run"
    /\ load_pc' = "exited"
    /\ returncode' \in {0, 1}
    /\ UNCHANGED <<load_impl, table_mapping, container_blobs, results, load_i, start_event>>
    /\ UNCHANGED notLoadVars

\* OrchStageReturn of a run_<stage> that starts the process and does not
\* wait for it (Popen): no returncode yet, `None == 0` is False
OrchStageReturnWithoutWait ==
    /\ orch_pc = "wait"
    /\ LET s == StageOrder[orch_k]
       IN  /\ stages' = [stages EXCEPT ![s] = "failed"]
           /\ failed_stages' = failed_stages + 1
           /\ orch_pc' = after_stage(orch_k, FALSE)
    /\ orch_k' = orch_k + 1
    /\ UNCHANGED <<stage_calls, procs, successful_stages, overall_success>>
    /\ UNCHANGED <<total_stages, stage_return_code, exit_code>>
    /\ UNCHANGED notOrchVars

\* subprocess.run returns once the process has ended; run_<stage> records
\* the status from result.returncode and returns
OrchStageReturn ==
    /\ orch_pc = "wait"
    /\ load_pc = "exited"
    /\ LET s == StageOrder[orch_k]
           stage_success == returncode = 0
       IN  /\ procs' = [procs EXCEPT ![s] = "exited"]
           /\ stages' = [stages EXCEPT
                            ![s] = IF stage_success THEN "success" ELSE "failed"]
           /\ stage_return_code' = [stage_return_code EXCEPT ![s] = returncode]
           /\ successful_stages' =
                 IF stage_success THEN successful_stages + 1 ELSE successful_stages
           /\ failed_stages' =
                 IF stage_success THEN failed_stages ELSE failed_stages + 1
           /\ orch_pc' = after_stage(orch_k, stage_success)
    /\ orch_k' = orch_k + 1
    /\ UNCHANGED <<stage_calls, overall_success, total_stages, exit_code>>
    /\ UNCHANGED notOrchVars

\* OrchFinish of a run_pipeline that counts the three stages of __init__
OrchFinishOfThreeStages ==
    /\ orch_pc = "verify"
    /\ overall_success' = (successful_stages = InitialTotalStages)
    /\ orch_pc' = "done"
    /\ UNCHANGED <<orch_k, stage_calls, procs, stages, successful_stages, failed_stages>>
    /\ UNCHANGED <<total_stages, stage_return_code, exit_code>>
    /\ UNCHANGED notOrchVars

\* verify_output_files, then overall_success
OrchFinish ==
    /\ orch_pc = "verify"
    /\ overall_success' = (successful_stages = Len(StageOrder))
    /\ orch_pc' = "done"
    /\ UNCHANGED <<orch_k, stage_calls, procs, stages, successful_stages, failed_stages>>
    /\ UNCHANGED <<total_stages, stage_return_code, exit_code>>
    /\ UNCHANGED notOrchVars

\* main: `return 0 if results['overall_success'] else 1`, the argument of
\* sys.exit
OrchExit ==
    /\ orch_pc = "done"
    /\ exit_code' = IF overall_success THEN 0 ELSE 1
    /\ orch_pc' = "exited"
    /\ UNCHANGED <<orch_k, stage_calls, procs, stages, successful_stages, failed_stages,
                   overall_success, total_stages, stage_return_code>>
    /\ UNCHANGED notOrchVars

InitOrch == OrchInit /\ NotRunIdle /\ ApiIdle
NextOrch ==
    \/ OrchRunStage
    \/ OrchChildExit
    \/ LoadStart
    \/ LoadTable
    \/ LoadExit
    \/ OrchStageReturn
    \/ OrchFinish
    \/ OrchExit
SpecOrch == InitOrch /\ [][NextOrch]_vars

C28_WitnessOneStageFailed ==
    /\ orch_pc = "exited"
    /\ successful_stages = 3
    /\ procs["load_from_azure"] = "exited"
    /\ stage_return_code["load_from_azure"] = 1
    /\ ~overall_success
    /\ exit_code = 1

LoadStageEnded ==
    /\ orch_pc = "done"
    /\ procs["load_from_azure"] = "exited"
    /\ load_impl = "load_from_azure"

\* C15: when the load stage's process could not list the container's
\* blobs, or could not connect to the warehouse, the orchestrator records
\* the stage with a status other than success and overall_success is false.
C15_ConnectivityFailurePropagates ==
    (LoadStageEnded /\ start_event \in {"list_blobs_failed", "connect_failed"})
        => /\ stages["load_from_azure"] # "success"
           /\ ~overall_success

\* the same for the failure to connect to the warehouse alone, which is
\* raised out of the script
ConnectFailurePropagates ==
    (LoadStageEnded /\ start_event = "connect_failed")
        => /\ stages["load_from_azure"] # "success"
           /\ ~overall_success

\* every configured table has a result with status success
EveryTableSucceeded ==
    /\ LoopEnded
    /\ \A k \in 1..Len(results) : results[k].status = "success"

\* C16: a stage that goes through the tables is recorded as success only
\* when every configured table was processed successfully, and so is the
\* run as a whole.
C16_SuccessOnlyWhenEveryTableSucceeded ==
    /\ \A s \in LoopStages :
          (/\ procs[s] = "exited"
           /\ load_impl = stage_script(s)
           /\ stages[s] = "success")
              => EveryTableSucceeded
    /\ (LoadStageEnded /\ overall_success) => EveryTableSucceeded

-----------------------------------------------------------------------------
(* SpecApi: the Flask application's run-trigger and status endpoints, the  *)
(* orchestrator process run_pipeline() starts, and the client of           *)
(* test_pipeline.py: its step 3 (POST /api/pipeline/run) and its           *)
(* monitoring loop (GET /api/pipeline/status every 10 seconds).            *)

\* who sends the POST: test_pipeline() at its step 3, or another client,
\* after which the monitoring loop is run
Posters == {"test_pipeline", "other"}

\* the keys of the JSON bodies the endpoints return
RunResponseKeys == {"status", "return_code", "stdout", "stderr", "timestamp"}
RunErrorKeys == {"status", "error", "timestamp"}
StatusResponseKeys == {"status", "last_run", "next_run", "timestamp"}

\* pipeline_status(): the response to GET /api/pipeline/status
pipeline_status ==
    [status_code |-> 200, keys |-> StatusResponseKeys, status |-> "idle"]

\* max_wait_time = 900 seconds, time.sleep(10) after each poll
MaxPolls == 90

ApiInit ==
    /\ api_pc = "none"
    /\ api_proc = "none"
    /\ return_code = NoReturncode
    /\ run_response = NoResponse
    /\ poster \in Posters
    /\ client_pc = "trigger"
    /\ current_status = "none"
    /\ polls = 0
    /\ loop_end = "none"
    /\ OrchIdle
    /\ OrchChildrenInit

\* POST /api/pipeline/run arrives: run_pipeline() up to subprocess.run
ApiRunPost ==
    /\ client_pc = "trigger"
    /\ api_pc = "none"
    /\ client_pc' = IF poster = "test_pipeline" THEN "awaiting" ELSE "monitor"
    /\ \E outcome \in CallOutcomes :
          IF outcome = "started"
          THEN /\ api_proc' = "running"
               /\ api_pc' = "wait"
               /\ orch_pc' = "call"
               /\ orch_k' = 1
               /\ UNCHANGED run_response
          ELSE /\ run_response' = [status_code |-> 500, keys |-> RunErrorKeys,
                                   status |-> "error"]
               /\ api_pc' = "responded"
               /\ UNCHANGED <<api_proc, orch_pc, orch_k>>
    /\ UNCHANGED <<return_code, poster, current_status, polls, loop_end>>
    /\ UNCHANGED <<stage_calls, procs, stages, successful_stages, failed_stages,
                   overall_success, total_stages, stage_return_code, exit_code>>
    /\ UNCHANGED <<notRunVars, loadVars>>

\* orchestrate_pipeline.main: sys.exit(0 if overall_success else 1)
ApiOrchestratorExit ==
    /\ api_proc = "running"
    /\ orch_pc = "done"
    /\ api_proc' = "exited"
    /\ return_code' = IF overall_success THEN 0 ELSE 1
    /\ UNCHANGED <<api_pc, run_response, poster, client_pc, current_status,
                   polls, loop_end>>
    /\ UNCHANGED notApiVars

\* subprocess.run returns, run_pipeline() answers the POST
ApiRunRespond ==
    /\ api_pc = "wait"
    /\ api_proc = "exited"
    /\ run_response' =
          [status_code |-> 200, keys |-> RunResponseKeys,
           status |-> IF return_code = 0 THEN "completed" ELSE "failed"]
    /\ api_pc' = "responded"
    /\ UNCHANGED <<api_proc, return_code, poster, client_pc, current_status,
                   polls, loop_end>>
    /\ UNCHANGED notApiVars

\* test_pipeline() step 3 with the response: pipeline_data['job_id'], or
\* return on another status code or on an exception (the KeyError)
ClientReadRunResponse ==
    /\ client_pc = "awaiting"
    /\ api_pc = "responded"
    /\ client_pc' = IF /\ run_response.status_code = 200
                       /\ "job_id" \in run_response.keys
                    THEN "monitor" ELSE "returned"
    /\ UNCHANGED <<api_pc, api_proc, return_code, run_response, poster,
                   current_status, polls, loop_end>>
    /\ UNCHANGED notApiVars

\* one pass of the monitoring loop: GET /api/pipeline/status, then
\* status_data['status'], status_data['logs'], the test of the status and
\* time.sleep(10); any exception ends the loop
ClientPoll ==
    /\ client_pc = "monitor"
    /\ IF polls >= MaxPolls
       THEN /\ loop_end' = "timeout"
            /\ client_pc' = "final"
            /\ UNCHANGED <<current_status, polls>>
       ELSE LET status_data == pipeline_status
            IN  /\ current_status' = status_data.status
                /\ IF "logs" \notin status_data.keys
                   THEN /\ loop_end' = "exception"
                        /\ client_pc' = "final"
                        /\ UNCHANGED polls
                   ELSE IF status_data.status \in {"completed", "failed"}
                        THEN /\ loop_end' = "status"
                             /\ client_pc' = "final"
                             /\ UNCHANGED polls
                        ELSE /\ polls' = polls + 1
                             /\ UNCHANGED <<loop_end, client_pc>>
    /\ UNCHANGED <<api_pc, api_proc, return_code, run_response, poster>>
    /\ UNCHANGED notApiVars

\* step 5, the final status check: final_status['logs'] raises as well, the
\* exception is printed and test_pipeline() returns
ClientFinal ==
    /\ client_pc = "final"
    /\ client_pc' = "returned"
    /\ UNCHANGED <<api_pc, api_proc, return_code, run_response, poster,
                   current_status, polls, loop_end>>
    /\ UNCHANGED notApiVars

InitApi == ApiInit /\ NotRunIdle
NextApi ==
    \/ ApiRunPost
    \/ OrchRunStage
    \/ OrchChildExit
    \/ LoadStart
    \/ LoadTable
    \/ LoadExit
    \/ OrchStageReturn
    \/ OrchFinish
    \/ ApiOrchestratorExit
    \/ ApiRunRespond
    \/ ClientReadRunResponse
    \/ ClientPoll
    \/ ClientFinal
SpecApi == InitApi /\ [][NextApi]_vars

\* C19: while the orchestrator's process runs the POST has already been
\* answered, and the answer to a POST that started the orchestrator holds a
\* job_id.
C19_RunRespondsAtOnceWithJobId ==
    /\ api_proc = "running" => api_pc = "responded"
    /\ (api_pc = "responded" /\ run_response.status_code = 200)
          => "job_id" \in run_response.keys

\* the POST is answered only when the orchestrator's process has ended
RunResponseAfterExit ==
    (api_pc = "responded" /\ run_response.status_code = 200)
        => api_proc = "exited"

\* C20: once a run was started and the client has left its monitoring
\* loop, or returned, the last status it was given is completed or failed
\* and that status is what ended the loop.
C20_PollingEndsOnCompletedOrFailed ==
    (api_proc # "none" /\ client_pc \in {"final", "returned"})
        => /\ current_status \in {"completed", "failed"}
           /\ loop_end = "status"

\* whatever the run does, the status endpoint says idle
StatusIsAlwaysIdle ==
    current_status \in {"none", "idle"}

-----------------------------------------------------------------------------
(* The comparison key of the differs (SpecDiff).                            *)

AnalyzeColumnComparisonIgnoresCase ==
    diff_pc = "analyze_column_comparison"
        => \A c \in MissingInTarget, t \in ExtraInTarget : lower(c) # lower(t)

-----------------------------------------------------------------------------
(* SpecFix: the value cleaning of one column.  A cell of the column is a   *)
(* str, None, or a float written Float(text) with the text of the literal  *)
(* float() was given.                                                       *)

\* float(text)
Float(text) == <<"float">> \o text

all_in(s, chars) == \A m \in 1..Len(s) : s[m] \in chars

\* the class [\d\.\-\+]
NumericChars == AsciiDigit \cup {".", "-", "+"}

\* re.match(r'^[\d\.\-\+]+$', val) and re.match(r'^[A-Za-z0-9]+$', val)
numeric_pattern(val) == val # <<>> /\ all_in(val, NumericChars)
alphanumeric_pattern(val) == val # <<>> /\ all_in(val, AsciiLetter \cup AsciiDigit)

\* re.search(r'[\d\.\-\+]+', s).group(): the leftmost run of such
\* characters, as long as it goes; <<>> when there is no match
numeric_match(s) ==
    IF \E m \in 1..Len(s) : s[m] \in NumericChars
    THEN LET a == CHOOSE m \in 1..Len(s) :
                      /\ s[m] \in NumericChars
                      /\ \A n \in 1..(m - 1) : s[n] \notin NumericChars
             b == CHOOSE m \in a..Len(s) :
                      /\ all_in(SubSeq(s, a, m), NumericChars)
                      /\ (m = Len(s) \/ s[m + 1] \notin NumericChars)
         IN  SubSeq(s, a, b)
    ELSE <<>>

\* whether float(t) returns for a text of NumericChars: an optional sign,
\* then digits with at most one point among them
float_ok(t) ==
    LET u == IF t # <<>> /\ Head(t) \in {"+", "-"} THEN Tail(t) ELSE t
    IN  /\ all_in(u, AsciiDigit \cup {"."})
        /\ \E m \in 1..Len(u) : u[m] \in AsciiDigit
        /\ Cardinality({ m \in 1..Len(u) : u[m] = "." }) <= 1

\* clean_numeric_value, the closure of fix_numeric_columns
clean_numeric_value(val) ==
    IF val = None \/ val = <<>> THEN None
    ELSE LET str_val == strip(val, Whitespace)
             m == numeric_match(str_val)
         IN  IF m # <<>> /\ float_ok(m) THEN Float(m)
             ELSE IF str_val # <<>> /\ all_in(str_val, AsciiLetter) THEN None
             ELSE val

\* `numeric_count > 0 and alphanumeric_count > 0` over the non-null values
mixed_values(values) ==
    LET non_null_values == { values[m] : m \in { n \in 1..Len(values) : values[n] # None } }
    IN  /\ \E v \in non_null_values : numeric_pattern(v)
        /\ \E v \in non_null_values : alphanumeric_pattern(v)

\* df[col] after fix_numeric_columns, for a column of dtype object
fix_numeric_columns(values) ==
    IF mixed_values(values)
    THEN [m \in 1..Len(values) |-> clean_numeric_value(values[m])]
    ELSE values

\* the characters chr(0)..chr(31) that the cells are written with
HiddenChars == {"\t", "\n", "\r"}

\* csv_cleaner.clean_string_value
clean_string_value(value) ==
    IF value = None THEN None
    ELSE LET cleaned_ == strip(value, Whitespace)
             shown == SelectSeq(cleaned_, LAMBDA c : c \notin HiddenChars)
         IN  IF cleaned_ = <<>> \/ shown = <<>> \/ all_in(shown, Whitespace)
             THEN None ELSE shown

MaxCells == 3

\* the cells of a text column: empty, blank, letters, numbers, both, a lone
\* sign, a tab inside a text, and a missing value
CellTexts ==
    { <<>>, <<" ">>, <<"a","b">>, <<"1","2">>, <<"a","1">>, <<"-">>,
      <<"1",".","5">>, <<"a","\t","b">>, None }

TextColumns == UNION { [1..n -> CellTexts] : n \in 1..MaxCells }

\* an int cell, written with the digits of its value
IntCell(n) == <<"int">> \o str_of_nat(n)
IsInt(value) == value # <<>> /\ Head(value) = "int"

\* the value of a text of digits
RECURSIVE nat_of_digits(_)
nat_of_digits(t) ==
    IF t = <<>> THEN 0
    ELSE 10 * nat_of_digits(SubSeq(t, 1, Len(t) - 1))
            + (CHOOSE d \in 0..9 : DigitSeq[d + 1] = t[Len(t)])

\* the whole part of float(t) for an unsigned text float() accepts
whole_part(t) ==
    LET point == { m \in 1..Len(t) : t[m] = "." }
    IN  IF point = {} THEN nat_of_digits(t)
        ELSE nat_of_digits(SubSeq(t, 1, (CHOOSE m \in point : TRUE) - 1))

\* strftime('%Y-%m-%d') of a date, written by what the date was computed
\* from: the days timedelta adds to datetime(1900, 1, 1), or the timestamp
ExcelDate(days) == <<"1900-01-01 + days">> \o str_of_nat(days)
TimestampDate(seconds) == <<"fromtimestamp">> \o str_of_nat(seconds)

ExcelSerialLimit == 100000
UnixTimestampFloor == 1000000000

\* convert_number_to_date of a number >= 0.  A number in neither range goes
\* on to the string branch, whose text is all digits again: the call
\* recurses until RecursionError, which `except Exception` turns into None
number_to_date(value) ==
    IF value > 0 /\ value < ExcelSerialLimit
    THEN LET v == IF value >= 61 THEN value - 1 ELSE value
         IN  IF v >= 2 THEN ExcelDate(v - 2) ELSE <<"1899-12-3x">>
    ELSE IF value > UnixTimestampFloor THEN TimestampDate(value)
    ELSE None

\* DataTypeFixer.convert_number_to_date
convert_number_to_date(value) ==
    IF value = None \/ value = <<>> THEN None
    ELSE IF IsInt(value) THEN number_to_date(nat_of_digits(Tail(value)))
    ELSE LET str_value == strip(value, Whitespace)
             digits_only == SelectSeq(str_value, LAMBDA c : c \notin {".", "-"})
         IN  IF digits_only # <<>> /\ all_in(digits_only, AsciiDigit)
             THEN IF float_ok(str_value) /\ Head(str_value) # "-"
                  THEN number_to_date(whole_part(
                           IF Head(str_value) = "+" THEN Tail(str_value) ELSE str_value))
                  ELSE None
             ELSE None

\* any(re.match(pattern, col, re.IGNORECASE) for pattern in date_patterns)
is_date_column(col) ==
    contains(lower(col), <<"d","a","t","e">>)
        \/ contains(lower(col), <<"s","i","g","n","e","d">>)

\* df[col] after fix_date_columns
fix_date_columns(col, values) ==
    IF is_date_column(col)
    THEN [m \in 1..Len(values) |-> convert_number_to_date(values[m])]
    ELSE values

FixFns == {"fix_numeric_columns", "clean_string_value", "fix_date_columns"}

ColumnLabels == { <<"a","m","o","u","n","t">>, <<"S","t","a","r","t","D","a","t","e">> }

\* the cells of a date column: a date, a month name, an Excel serial number
\* and a Unix timestamp as digits and as int, zero, empty and missing
DateCells ==
    { <<"2","0","2","3","-","0","1","-","0","5">>, <<"J","a","n">>,
      <<"4","5","0","0","0">>, IntCell(45000), IntCell(1700000000), <<"0">>, <<>>, None }

DateColumns == UNION { [1..n -> DateCells] : n \in 1..MaxCells }

FixInit ==
    /\ fix_fn \in FixFns
    /\ fix_col \in ColumnLabels
    /\ fix_values \in IF fix_fn = "fix_date_columns" THEN DateColumns ELSE TextColumns
    /\ fix_result = <<>>
    /\ fix_pc = "start"

\* df, fixed = fixer.fix_date_columns(df, table_name), one column of it
FixDateColumns ==
    /\ fix_pc = "start"
    /\ fix_fn = "fix_date_columns"
    /\ fix_result' = fix_date_columns(fix_col, fix_values)
    /\ fix_pc' = "done"
    /\ UNCHANGED <<fix_fn, fix_col, fix_values>>
    /\ UNCHANGED notFixVars

\* df, fixed = fixer.fix_numeric_columns(df, table_name), one column of it
FixNumericColumns ==
    /\ fix_pc = "start"
    /\ fix_fn = "fix_numeric_columns"
    /\ fix_result' = fix_numeric_columns(fix_values)
    /\ fix_pc' = "done"
    /\ UNCHANGED <<fix_fn, fix_col, fix_values>>
    /\ UNCHANGED notFixVars

\* df[col] = df[col].apply(clean_string_value)
CleanStringValues ==
    /\ fix_pc = "start"
    /\ fix_fn = "clean_string_value"
    /\ fix_result' = [m \in 1..Len(fix_values) |-> clean_string_value(fix_values[m])]
    /\ fix_pc' = "done"
    /\ UNCHANGED <<fix_fn, fix_col, fix_values>>
    /\ UNCHANGED notFixVars

InitFix == FixInit /\ NotFixIdle
NextFix == FixNumericColumns \/ CleanStringValues \/ FixDateColumns
SpecFix == InitFix /\ [][NextFix]_vars

\* an empty str, a str of whitespace only, a str of letters only
NotANumber(val) ==
    /\ val # None
    /\ \/ val = <<>>
       \/ all_in(val, Whitespace)
       \/ all_in(val, AsciiLetter)

\* C22: in a column fix_numeric_columns has cleaned as numbers, every cell
\* that was empty, whitespace only or letters only is null afterwards.
C22_NotANumberBecomesNull ==
    (/\ fix_pc = "done"
     /\ fix_fn = "fix_numeric_columns"
     /\ mixed_values(fix_values))
        => \A m \in 1..Len(fix_values) :
              NotANumber(fix_values[m]) => fix_result[m] = None

\* the same for the empty and the letters-only cells alone
EmptyAndLettersBecomeNull ==
    (/\ fix_pc = "done"
     /\ fix_fn = "fix_numeric_columns"
     /\ mixed_values(fix_values))
        => \A m \in 1..Len(fix_values) :
              (fix_values[m] = <<>> \/ (fix_values[m] # None /\ fix_values[m] # <<>>
                                         /\ all_in(fix_values[m], AsciiLetter)))
                  => fix_result[m] = None

\* clean_string_value gives null for the empty and the whitespace-only cell
BlankStringBecomesNull ==
    (fix_pc = "done" /\ fix_fn = "clean_string_value")
        => \A m \in 1..Len(fix_values) :
              (fix_values[m] # None /\ all_in(fix_values[m], Whitespace))
                  => fix_result[m] = None

\* a number, or a str of digits
NumericCell(value) ==
    \/ IsInt(value)
    \/ value # None /\ value # <<>> /\ all_in(value, AsciiDigit)

\* C30: a cell of a date-named column that is not null, not empty and not
\* numeric is the same after fix_date_columns: a date str is left as it is, never
\* replaced by null.
C30_OnlyNumericValuesChange ==
    (fix_pc = "done" /\ fix_fn = "fix_date_columns")
        => \A m \in 1..Len(fix_values) :
              (fix_values[m] \notin {None, <<>>} /\ ~NumericCell(fix_values[m]))
                  => fix_result[m] = fix_values[m]

\* the columns whose label does not say date are left as they are
OtherColumnsUnchanged ==
    (fix_pc = "done" /\ fix_fn = "fix_date_columns" /\ ~is_date_column(fix_col))
        => fix_result = fix_values

-----------------------------------------------------------------------------
(* SpecBak: the scripts that rewrite a blob in place after taking a        *)
(* backup.  PreLoadCleaner.create_backup asks the storage service for a    *)
(* server-side copy (start_copy_from_url), which the service carries out   *)
(* on its own time; DataTypeFixer.fix_csv_data_types uploads the text it   *)
(* has downloaded under the backup's name.                                  *)

BakImpls == {"pre_load_cleaner", "data_type_fixer"}

\* the contents a blob can have: CSV texts, written as their header line
BlobContents ==
    { <<"I","D">>, <<"I","D",",","N","a","m","e">>, <<"D","a","t","e">>,
      <<"N","a","m","e">>, <<"I","D",",","D","a","t","e">> }

\* the text uploaded in place of the original
cleaned_content(content) == <<"cleaned:">> \o content

\* the steps of process_table / fix_csv_data_types on the blob, in order
BakSteps == <<"download", "backup", "clean", "upload", "verify", "done">>
step_after(pc) ==
    BakSteps[(CHOOSE m \in 1..Len(BakSteps) : BakSteps[m] = pc) + 1]

BakInit ==
    /\ bak_impl \in BakImpls
    /\ bak_original \in BlobContents
    /\ blob_content = bak_original
    /\ backup_copy = "absent"
    /\ backup_content = None
    /\ bak_pc = "download"
    /\ bak_result = "pending"

\* a step that does not write: the download, the cleaning of the frame, and
\* PreLoadCleaner's verify_upload; an exception ends the call
BakStep ==
    /\ bak_pc \in {"download", "clean", "verify"}
    /\ \E ok \in BOOLEAN :
          IF ok
          THEN /\ bak_pc' = IF bak_pc = "verify" THEN "done" ELSE step_after(bak_pc)
               /\ bak_result' = IF bak_pc = "verify" THEN "success" ELSE bak_result
          ELSE /\ bak_pc' = "done"
               /\ bak_result' =
                     IF bak_impl = "data_type_fixer" THEN "failed"
                     ELSE IF bak_pc = "verify" THEN "verification_failed" ELSE "error"
    /\ UNCHANGED <<bak_impl, bak_original, blob_content, backup_copy, backup_content>>
    /\ UNCHANGED notBakVars

\* the backup: backup_blob.start_copy_from_url(source_blob.url) returns
\* when the service has accepted the copy, upload_blob(csv_content) when
\* the backup blob is written; an exception ends the call
BakCreateBackup ==
    /\ bak_pc = "backup"
    /\ \E ok \in BOOLEAN :
          IF ok
          THEN /\ IF bak_impl = "pre_load_cleaner"
                  THEN \/ backup_copy' = "pending" /\ backup_content' = None
                       \/ backup_copy' = "success" /\ backup_content' = blob_content
                  ELSE backup_copy' = "success" /\ backup_content' = blob_content
               /\ bak_pc' = step_after(bak_pc)
               /\ UNCHANGED bak_result
          ELSE /\ bak_pc' = "done"
               /\ bak_result' = IF bak_impl = "data_type_fixer" THEN "failed" ELSE "error"
               /\ UNCHANGED <<backup_copy, backup_content>>
    /\ UNCHANGED <<bak_impl, bak_original, blob_content>>
    /\ UNCHANGED notBakVars

\* the storage service ends a pending copy: with the source as it was when
\* the copy was asked for, or, when the source has been overwritten in the
\* meantime, as a failed copy
BakCopyEnds ==
    /\ backup_copy = "pending"
    /\ IF blob_content = bak_original
       THEN backup_copy' = "success" /\ backup_content' = bak_original
       ELSE \/ backup_copy' = "failed" /\ backup_content' = None
            \/ backup_copy' = "success" /\ backup_content' = bak_original
    /\ UNCHANGED <<bak_impl, bak_original, blob_content, bak_pc, bak_result>>
    /\ UNCHANGED notBakVars

\* blob_client.upload_blob(..., overwrite=True) on the original's name;
\* fix_csv_data_types returns success after it
BakUpload ==
    /\ bak_pc = "upload"
    /\ \E ok \in BOOLEAN :
          IF ok
          THEN /\ blob_content' = cleaned_content(bak_original)
               /\ bak_pc' = IF bak_impl = "data_type_fixer" THEN "done" ELSE step_after(bak_pc)
               /\ bak_result' = IF bak_impl = "data_type_fixer" THEN "success" ELSE bak_result
          ELSE /\ bak_pc' = "done"
               /\ bak_result' = IF bak_impl = "data_type_fixer" THEN "failed" ELSE "error"
               /\ UNCHANGED blob_content
    /\ UNCHANGED <<bak_impl, bak_original, backup_copy, backup_content>>
    /\ UNCHANGED notBakVars

InitBak == BakInit /\ NotBakIdle
NextBak == BakStep \/ BakCreateBackup \/ BakCopyEnds \/ BakUpload
SpecBak == InitBak /\ [][NextBak]_vars

\* C23: whenever the blob no longer has its original content, a backup
\* blob exists whose copy has ended and which holds the original content;
\* so without a backup the blob is as it was.
C23_BackupBeforeModification ==
    blob_content # bak_original
        => /\ backup_copy = "success"
           /\ backup_content = bak_original

\* the same statement of DataTypeFixer.fix_csv_data_types alone
DataTypeFixerBacksUpFirst ==
    bak_impl = "data_type_fixer" => C23_BackupBeforeModification

\* if the backup could not be made the blob is not written
NoBackupNoModification ==
    backup_copy = "absent" => blob_content = bak_original

-----------------------------------------------------------------------------
(* SpecWr: the statements load_data_to_snowflake and                       *)
(* AzureToSnowflakeLoader.load_to_snowflake send for one table: TRUNCATE   *)
(* TABLE, then write_pandas.  The connection commits each statement as it  *)
(* is executed.                                                             *)

WrImpls == {"load_from_azure", "azure_to_snowflake_loader"}

\* the rows a table or a payload can hold
RowIds == {"r1", "r2", "r3"}

WrInit ==
    /\ wr_impl \in WrImpls
    /\ previous_rows \in SUBSET RowIds
    /\ df_rows \in SUBSET RowIds
    /\ table_rows = previous_rows
    /\ wr_pc = "prepare"
    /\ wr_success = FALSE

\* everything before the TRUNCATE: the conversions of df and the context
\* query, or USE DATABASE / USE SCHEMA and SHOW TABLES LIKE; an exception
\* goes to the except clause, which returns the failure
WrPrepare ==
    /\ wr_pc = "prepare"
    /\ \E ok \in BOOLEAN : wr_pc' = IF ok THEN "truncate" ELSE "done"
    /\ UNCHANGED <<wr_impl, previous_rows, df_rows, table_rows, wr_success>>
    /\ UNCHANGED notWrVars

\* cursor.execute(f"TRUNCATE TABLE {table_name}")
WrTruncate ==
    /\ wr_pc = "truncate"
    /\ \E ok \in BOOLEAN :
          IF ok THEN table_rows' = {} /\ wr_pc' = "write_pandas"
          ELSE UNCHANGED table_rows /\ wr_pc' = "done"
    /\ UNCHANGED <<wr_impl, previous_rows, df_rows, wr_success>>
    /\ UNCHANGED notWrVars

\* write_pandas(conn, df, table_name, auto_create_table=False,
\* overwrite=True): the table holds df's rows when it returns success;
\* when it raises or returns success = False nothing has been copied
WrWritePandas ==
    /\ wr_pc = "write_pandas"
    /\ \E outcome \in {"success", "not_success", "raises"} :
          IF outcome = "success"
          THEN table_rows' = df_rows /\ wr_success' = TRUE
          ELSE UNCHANGED <<table_rows, wr_success>>
    /\ wr_pc' = "done"
    /\ UNCHANGED <<wr_impl, previous_rows, df_rows>>
    /\ UNCHANGED notWrVars

InitWr == WrInit /\ NotWrIdle
NextWr == WrPrepare \/ WrTruncate \/ WrWritePandas
SpecWr == InitWr /\ [][NextWr]_vars

\* C24: when the load attempt has ended the table holds exactly the
\* payload or exactly the rows it held before; a failed bulk write does
\* not leave it without them.
C24_FailedLoadKeepsPreviousRows ==
    wr_pc = "done" => table_rows \in {df_rows, previous_rows}

\* a load attempt that reports success has put the payload in the table
SuccessfulLoadHoldsPayload ==
    (wr_pc = "done" /\ wr_success) => table_rows = df_rows

\* a load attempt that reports a failure leaves the table as it was, when
\* it ended before the TRUNCATE, or without rows
FailedLoadLeavesPreviousOrNothing ==
    (wr_pc = "done" /\ ~wr_success) => table_rows \in {previous_rows, {}}

-----------------------------------------------------------------------------
(* SpecSrv: the application serving POST /api/pipeline/run.  app.run       *)
(* starts Flask's development server, which handles each request in a      *)
(* thread of its own; run_pipeline() holds no lock and keeps no record of  *)
(* a run in progress.                                                       *)

MaxRequests == 3
Requests == 1..MaxRequests

\* no orchestrator process, and one that has ended
NoProc == "none"
ProcExited == "exited"

SrvInit ==
    /\ srv_pc = [r \in Requests |-> "none"]
    /\ srv_proc = [r \in Requests |-> NoProc]
    /\ srv_status = [r \in Requests |-> "none"]

\* a POST arrives and run_pipeline() looks for orchestrate_pipeline.py
SrvReceive(r) ==
    /\ srv_pc[r] = "none"
    /\ \E script_exists \in BOOLEAN :
          IF script_exists
          THEN srv_pc' = [srv_pc EXCEPT ![r] = "run"] /\ UNCHANGED srv_status
          ELSE /\ srv_pc' = [srv_pc EXCEPT ![r] = "responded"]
               /\ srv_status' = [srv_status EXCEPT ![r] = "error"]
    /\ UNCHANGED srv_proc
    /\ UNCHANGED notSrvVars

\* subprocess.run([sys.executable, script_path], ...): the orchestrator's
\* process starts with its first stage, or subprocess.run raises
SrvSubprocessRun(r) ==
    /\ srv_pc[r] = "run"
    /\ \E started \in BOOLEAN :
          IF started
          THEN /\ srv_proc' = [srv_proc EXCEPT ![r] = StageOrder[1]]
               /\ srv_pc' = [srv_pc EXCEPT ![r] = "wait"]
               /\ UNCHANGED srv_status
          ELSE /\ srv_pc' = [srv_pc EXCEPT ![r] = "responded"]
               /\ srv_status' = [srv_status EXCEPT ![r] = "error"]
               /\ UNCHANGED srv_proc
    /\ UNCHANGED notSrvVars

\* the orchestrator's process goes from one stage to the next and ends
\* after the last
SrvOrchestratorStep(r) ==
    /\ srv_proc[r] \notin {NoProc, ProcExited}
    /\ LET k == CHOOSE m \in 1..Len(StageOrder) : StageOrder[m] = srv_proc[r]
       IN  srv_proc' = [srv_proc EXCEPT
                           ![r] = IF k = Len(StageOrder) THEN ProcExited
                                  ELSE StageOrder[k + 1]]
    /\ UNCHANGED <<srv_pc, srv_status>>
    /\ UNCHANGED notSrvVars

\* subprocess.run returns and the handler answers from result.returncode
SrvRespond(r) ==
    /\ srv_pc[r] = "wait"
    /\ srv_proc[r] = ProcExited
    /\ \E rc \in {0, 1} :
          srv_status' = [srv_status EXCEPT
                            ![r] = IF rc = 0 THEN "completed" ELSE "failed"]
    /\ srv_pc' = [srv_pc EXCEPT ![r] = "responded"]
    /\ UNCHANGED srv_proc
    /\ UNCHANGED notSrvVars

InitSrv == SrvInit /\ NotSrvIdle
NextSrv ==
    \E r \in Requests :
        \/ SrvReceive(r)
        \/ SrvSubprocessRun(r)
        \/ SrvOrchestratorStep(r)
        \/ SrvRespond(r)
SpecSrv == InitSrv /\ [][NextSrv]_vars

\* the requests whose orchestrator process is running
ActiveRuns == { r \in Requests : srv_proc[r] \notin {NoProc, ProcExited} }

\* C25: at no time are the orchestrator processes of two requests running.
C25_AtMostOneActiveRun == Cardinality(ActiveRuns) <= 1

\* the processes of two requests are in the load stage at once, each
\* truncating and loading the tables of the same table_mapping.json
TwoLoadersAtOnce ==
    \E r1, r2 \in Requests :
        /\ r1 # r2
        /\ srv_proc[r1] = "load_from_azure"
        /\ srv_proc[r2] = "load_from_azure"

-----------------------------------------------------------------------------
(* SpecMon: DataQuery.download_monday_data on one board: the pagination    *)
(* loop over items_page, then the board's CSV.                              *)

MaxPages == 3
MaxPageItems == 2

\* a board: its pages in the order the cursor gives them, each with the
\* number of its items
Boards == UNION { [1..n -> 0..MaxPageItems] : n \in 1..MaxPages }

\* the items of page p, as item_data rows
page_items(p, n) == [m \in 1..n |-> <<p, m>>]

MonInit ==
    /\ board_pages \in Boards
    /\ pages_retrieved = 0
    /\ board_items = <<>>
    /\ loop_exit = "none"
    /\ csv_written = FALSE
    /\ csv_rows = <<>>
    /\ csv_uploaded = FALSE
    /\ mon_pc = "page"

\* one iteration of `while True`: the request for the page at the cursor.
\* A status other than 200 and an empty boards list break out of the loop,
\* as does a page without a cursor, after its items are appended; an
\* exception of requests.post leaves the method through its except clause
MonRequestPage ==
    /\ mon_pc = "page"
    /\ \E response \in {"ok", "not_200", "no_boards", "raises"} :
          IF response = "ok"
          THEN LET p == pages_retrieved + 1
               IN  /\ board_items' = board_items \o page_items(p, board_pages[p])
                   /\ pages_retrieved' = p
                   /\ IF p = Len(board_pages)
                      THEN loop_exit' = "no_cursor" /\ mon_pc' = "save"
                      ELSE UNCHANGED <<loop_exit, mon_pc>>
          ELSE /\ loop_exit' = response
               /\ mon_pc' = IF response = "raises" THEN "done" ELSE "save"
               /\ UNCHANGED <<board_items, pages_retrieved>>
    /\ UNCHANGED <<board_pages, csv_written, csv_rows, csv_uploaded>>
    /\ UNCHANGED notMonVars

\* `if board_items:` df.to_csv(csv_path) and upload_df_to_azure, whose
\* result is not looked at
MonSaveBoard ==
    /\ mon_pc = "save"
    /\ IF board_items # <<>>
       THEN /\ csv_written' = TRUE
            /\ csv_rows' = board_items
            /\ csv_uploaded' \in BOOLEAN
       ELSE UNCHANGED <<csv_written, csv_rows, csv_uploaded>>
    /\ mon_pc' = "done"
    /\ UNCHANGED <<board_pages, pages_retrieved, board_items, loop_exit>>
    /\ UNCHANGED notMonVars

InitMon == MonInit /\ NotMonIdle
NextMon == MonRequestPage \/ MonSaveBoard
SpecMon == InitMon /\ [][NextMon]_vars

\* C27: the board's CSV is written or uploaded only when every page of the
\* board was retrieved.
C27_SavedOnlyWhenComplete ==
    (csv_written \/ csv_uploaded) => pages_retrieved = Len(board_pages)

\* what is written is what was collected, and nothing is written when
\* requests.post raised
SavedRowsAreCollectedItems ==
    /\ csv_written => (csv_rows = board_items /\ loop_exit # "raises")
    /\ csv_uploaded => csv_written

-----------------------------------------------------------------------------
(* SpecPcl: PreLoadCleaner.clean_csv_columns: the labels of the CSV are    *)
(* renamed to the table's column names through the mapping                 *)
(* get_snowflake_columns builds.                                            *)

\* PreLoadCleaner.csv_to_snowflake_format
csv_to_snowflake_format(snowflake_column) ==
    LET c1 == strip(strip(snowflake_column, Whitespace), Quotes)
        c2 == replace_spaces(c1)
        c3 == sub_problem_chars(c2)
        c4 == sub_not_word_nor_space(c3)
        c5 == collapse_underscores(c4)
        c6 == strip(c5, {"_"})
        c7 == IF c6 = <<>> THEN UNNAMED_COLUMN ELSE c6
        c8 == IF needs_col_prefix(c7) THEN COL_ \o c7 ELSE c7
    IN  upper(c8)

\* the keys of get_snowflake_columns' column_mapping
column_mapping_keys(columns_info) ==
    { csv_to_snowflake_format(columns_info[m]) : m \in 1..Len(columns_info) }

\* column_mapping[key]: the dict keeps the last row assigned to a key
column_mapping_get(columns_info, key) ==
    LET rows == { m \in 1..Len(columns_info) :
                     csv_to_snowflake_format(columns_info[m]) = key }
    IN  columns_info[CHOOSE m \in rows : \A n \in rows : n <= m]

\* df.rename(columns=rename_mapping).columns: a label whose cleaned form is
\* a key of column_mapping gets the table's column name, any other stays
clean_csv_columns(columns, columns_info) ==
    [m \in 1..Len(columns) |->
        LET cleaned_col_ == csv_to_snowflake_format(columns[m])
        IN  IF cleaned_col_ \in column_mapping_keys(columns_info)
            THEN column_mapping_get(columns_info, cleaned_col_)
            ELSE columns[m]]

\* the labels of a CSV: the header labels above and two in lower case
CsvLabels == HeaderLabels \cup { <<"i","d">>, <<"o","l","d","_","f","i","e","l","d">> }

PclInit ==
    /\ original_columns \in NamedColumns(CsvLabels)
    /\ describe_columns \in NamedColumns(HeaderLabels)
    /\ df_cleaned_columns = <<>>
    /\ pcl_pc = "start"

\* clean_csv_columns: without a mapping for the table, and on an
\* exception, df is returned as it is
CleanCsvColumns ==
    /\ pcl_pc = "start"
    /\ \E has_mapping, raises \in BOOLEAN :
          df_cleaned_columns' =
              IF has_mapping /\ ~raises
              THEN clean_csv_columns(original_columns, describe_columns)
              ELSE original_columns
    /\ pcl_pc' = "done"
    /\ UNCHANGED <<original_columns, describe_columns>>
    /\ UNCHANGED notPclVars

InitPcl == PclInit /\ NotPclIdle
NextPcl == CleanCsvColumns
SpecPcl == InitPcl /\ [][NextPcl]_vars

\* C29: the labels of the CSV, pairwise distinct before the call, are
\* pairwise distinct after it.
C29_RenamingKeepsLabelsDistinct ==
    (pcl_pc = "done" /\ IsInjective(original_columns))
        => IsInjective(df_cleaned_columns)

\* the call neither adds nor drops a column, and a renamed column has the
\* name of a column of the table
RenamedToTableColumns ==
    pcl_pc = "done"
        => /\ Len(df_cleaned_columns) = Len(original_columns)
           /\ \A m \in 1..Len(original_columns) :
                 \/ df_cleaned_columns[m] = original_columns[m]
                 \/ df_cleaned_columns[m] \in Range(describe_columns)

====
